---- MODULE Spec2Model ----
(***************************************************************************)
(* A model of the aidar scoring engine (src/src/aidar): pattern registry,  *)
(* detectors, Analyzer, scorer and the SQLite persistence queries.         *)
(*                                                                         *)
(* Numbers.  Python floats are modelled as exact rationals <<n, d>> in     *)
(* lowest terms with d > 0.  The inputs the specifications draw are dyadic *)
(* (multiples of 1/2 or 1/4) or small integers, for which the products and *)
(* sums the code forms are exact in IEEE double arithmetic as well; a      *)
(* quotient is one correctly rounded operation on exact operands, so equal *)
(* rationals here are equal floats there.                                  *)
(*                                                                         *)
(* Exceptions.  An operation that raises is modelled by the name of the    *)
(* exception class in an "exc" field; "" means it returned normally.       *)
(***************************************************************************)
EXTENDS Integers, Sequences, FiniteSets, TLC

VARIABLES
    patterns,        \* PatternRegistry._patterns: the definitions, in dict order
    detectors,       \* PatternRegistry._detectors: pattern id -> cached detector
    results,         \* input / output list of PatternResult of the last analysis
    score_vector,    \* the ScoreVector: five category means and pattern_results
    config,          \* the AppConfig handed to compute_aggregate
    agg,             \* compute_aggregate's frame: its locals and how it ended
    scans,           \* table scans
    pattern_scores,  \* table pattern_scores
    document,        \* the document under analysis
    call,            \* the last operation: its name, arguments and outcome
    files,           \* patterns_dir: the pattern documents and the weights document
    tasks,           \* the _scan_one coroutines of a batch, by url
    semaphore,       \* the value of the batch's asyncio.Semaphore
    batch,           \* the frame of _bulk_scan: its arguments and what it returned
    threads,         \* the frames of concurrent Analyzer.run calls
    scan_status,     \* web: _scan_status, domain -> status
    scan_last_completed,  \* web: _scan_last_completed, domain -> time.time()
    background_tasks,     \* web: the _run_domain_scan tasks added, in order
    now              \* web: the clock, time.time()

vars == <<patterns, detectors, results, score_vector, config, agg,
          scans, pattern_scores, document, call, files, tasks, semaphore,
          batch, threads, scan_status, scan_last_completed,
          background_tasks, now>>

----------------------------------------------------------------------------
(* Bounds of the model *)

\* longest list of PatternResults handed to _aggregate
MaxResults == 3

\* longest list of definitions handed to PatternRegistry
MaxPatterns == 2

\* largest word count / match count of a document
MaxCount == 2

----------------------------------------------------------------------------
(* Float arithmetic as exact rationals *)

Abs(x) == IF x < 0 THEN -x ELSE x

RECURSIVE GCD(_, _)
GCD(a, b) == IF b = 0 THEN a ELSE GCD(b, a % b)

\* the rational n/d (d # 0) in lowest terms with a positive denominator
Rat(n, d) ==
    LET s == IF d < 0 THEN -1 ELSE 1
        g == GCD(Abs(n), Abs(d))
    IN  <<(s * n) \div g, (s * d) \div g>>

Zero == Rat(0, 1)
One  == Rat(1, 1)
Half == Rat(1, 2)

RAdd(a, b) == Rat(a[1] * b[2] + b[1] * a[2], a[2] * b[2])
RSub(a, b) == Rat(a[1] * b[2] - b[1] * a[2], a[2] * b[2])
RMul(a, b) == Rat(a[1] * b[1], a[2] * b[2])
\* a / b for b # 0
RDiv(a, b) == Rat(a[1] * b[2], a[2] * b[1])
RLe(a, b)  == a[1] * b[2] <= b[1] * a[2]
RLt(a, b)  == a[1] * b[2] < b[1] * a[2]
RMin(a, b) == IF RLe(a, b) THEN a ELSE b
RMax(a, b) == IF RLe(a, b) THEN b ELSE a

\* Python's round(x): to the nearest integer, a tie to the even one
PyRound(q) ==
    LET f == q[1] \div q[2]
        r == q[1] - f * q[2]
    IN  IF 2 * r < q[2] THEN f
        ELSE IF 2 * r > q[2] THEN f + 1
        ELSE IF f % 2 = 0 THEN f ELSE f + 1

IMin(a, b) == IF a <= b THEN a ELSE b
IMax(a, b) == IF a <= b THEN b ELSE a

----------------------------------------------------------------------------
(* models/pattern.py *)

Categories == {"punctuation", "phrases", "structure", "emoji", "vocabulary"}

DetectionTypes == {"regex", "frequency", "structural", "linguistic"}

\* PatternDef.__post_init__: the validation a definition passes to exist
PatternDefValid(p) ==
    /\ RLe(Zero, p.weight) /\ RLe(p.weight, One)
    /\ p.category \in Categories
    /\ p.detection_type \in DetectionTypes

\* a PatternDef; params is the untyped dict, a function on the keys it has
PatternDef(id, category, weight, detection_type, params) ==
    [id |-> id, category |-> category, weight |-> weight,
     detection_type |-> detection_type, params |-> params]

----------------------------------------------------------------------------
(* models/result.py *)

\* PatternResult: six fields, set by the constructor's keyword arguments
PatternResult(pattern_id, category, raw_value, normalized_score, weight, label) ==
    [pattern_id |-> pattern_id, category |-> category, raw_value |-> raw_value,
     normalized_score |-> normalized_score, weight |-> weight, label |-> label]

\* the fields of the dataclasses: a keyword outside them is a TypeError, an
\* attribute outside them an AttributeError
PatternResultFields ==
    {"pattern_id", "category", "raw_value", "normalized_score", "weight", "label"}

AggregateResultFields ==
    {"url", "file_path", "word_count", "score_vector", "aggregate_score",
     "label", "scanned_at", "model_match"}

ScoreVector(punctuation, phrases, structure, emoji, vocabulary, pattern_results) ==
    [punctuation |-> punctuation, phrases |-> phrases, structure |-> structure,
     emoji |-> emoji, vocabulary |-> vocabulary,
     pattern_results |-> pattern_results]

----------------------------------------------------------------------------
(* How an operation ends: normally with a value, or by raising *)

Returned(v) == [exc |-> "", value |-> <<v>>]
Raised(e)   == [exc |-> e, value |-> <<>>]

----------------------------------------------------------------------------
(* patterns/detectors/base.py *)

NormalizeUnclamped(p, raw) ==
    LET t_low  == p.params.threshold_low
        t_high == p.params.threshold_high
    IN  IF RLe(raw, t_low) THEN Zero
        ELSE RDiv(RSub(raw, t_low), RSub(t_high, t_low))

\* BaseDetector._normalize: linear min-max clamp between the two thresholds
Normalize(p, raw) ==
    LET t_low  == p.params.threshold_low
        t_high == p.params.threshold_high
    IN  IF RLe(raw, t_low) THEN Zero
        ELSE IF RLe(t_high, raw) THEN One
        ELSE RDiv(RSub(raw, t_low), RSub(t_high, t_low))

\* BaseDetector._make_result; params[...] of a missing key is a KeyError
MakeResult(p, raw, label) ==
    IF ~({"threshold_low", "threshold_high"} \subseteq DOMAIN p.params)
    THEN Raised("KeyError")
    ELSE Returned(PatternResult(p.id, p.category, raw, Normalize(p, raw),
                                p.weight, label))

----------------------------------------------------------------------------
(* A document as the detectors see it: the word count the caller computed   *)
(* and the counts their regular expressions and substring searches take    *)
(* from the text.                                                          *)

\* the values a coefficient of variation is drawn from
CvValues == {Zero, Half, Rat(3, 2)}

Docs ==
    { d \in [word_count : 0..MaxCount, matches : 0..MaxCount,
             terms : 0..MaxCount, lines : 0..MaxCount,
             bullet_lines : 0..MaxCount, headers : 0..MaxCount,
             chars : 0..MaxCount, emojis : 0..MaxCount,
             paragraphs : 0..MaxCount + 1, cv : CvValues] :
        /\ d.bullet_lines <= d.lines
        /\ d.headers <= d.lines
        /\ d.emojis <= d.chars }

\* params.get("per_n_words", 1000)
PerNWords(p) ==
    IF "per_n_words" \in DOMAIN p.params THEN p.params.per_n_words ELSE 1000

\* (count / max(word_count, 1)) * per_n
Rate(count, word_count, per_n) ==
    RMul(Rat(count, IMax(word_count, 1)), Rat(per_n, 1))

\* patterns/detectors/regex_detector.py: RegexDetector.detect
RegexDetect(p, doc) ==
    MakeResult(p, Rate(doc.matches, doc.word_count, PerNWords(p)),
               "{raw:.1f} per {per_n} words")

\* patterns/detectors/frequency_detector.py: FrequencyDetector.detect
FrequencyDetect(p, doc) ==
    MakeResult(p, Rate(doc.terms, doc.word_count, PerNWords(p)),
               "{raw:.2f} per {per_n} words ({total} matches)")

\* patterns/detectors/structural_detector.py: _bullet_density
BulletDensity(p, doc) ==
    IF doc.lines = 0
    THEN MakeResult(p, Zero, "0.0% bullet lines")
    ELSE MakeResult(p, Rat(doc.bullet_lines, doc.lines), "{ratio:.1%} bullet lines")

\* structural_detector.py: _header_ratio
HeaderRatio(p, doc) ==
    MakeResult(p, Rat(doc.headers, IMax(doc.word_count, 1)),
               "{headers} headers ({ratio*1000:.1f} per 1000 words)")

\* structural_detector.py: _paragraph_uniformity; a paragraph kept by the
\* split has a word, so the mean of the lengths is never 0
ParagraphUniformity(p, doc) ==
    IF doc.paragraphs < 3
    THEN MakeResult(p, Zero, "too few paragraphs to measure")
    ELSE MakeResult(p, RSub(One, RMin(doc.cv, One)),
                    "CV={cv:.2f} (uniformity={inverted:.2f})")

\* structural_detector.py: _emoji_density
EmojiDensity(p, doc) ==
    MakeResult(p, Rat(doc.emojis, IMax(doc.chars, 1)),
               "{emoji_count} emojis ({ratio*1000:.2f} per 1000 chars)")

\* StructuralDetector.detect: dispatch on params["metric"]
StructuralDetect(p, doc) ==
    IF "metric" \notin DOMAIN p.params THEN Raised("KeyError")
    ELSE CASE p.params.metric = "bullet_density" -> BulletDensity(p, doc)
           [] p.params.metric = "header_ratio" -> HeaderRatio(p, doc)
           [] p.params.metric = "paragraph_cv_inverted" -> ParagraphUniformity(p, doc)
           [] p.params.metric = "emoji_density" -> EmojiDensity(p, doc)
           [] OTHER -> Raised("ValueError")

----------------------------------------------------------------------------
(* patterns/registry.py *)

\* _DETECTOR_MAP: the detection types that have a registered implementation
DETECTOR_MAP == {"regex", "frequency", "structural"}

RECURSIVE IndexOfId(_, _, _)
\* position of the definition with this id in a sequence, 0 if there is none
IndexOfId(seq, id, i) ==
    IF i > Len(seq) THEN 0
    ELSE IF seq[i].id = id THEN i
    ELSE IndexOfId(seq, id, i + 1)

RECURSIVE DictFromList(_, _, _)
\* {p.id: p for p in patterns}: a later definition with an id already present
\* replaces the value and keeps the first one's position
DictFromList(list, i, acc) ==
    IF i > Len(list) THEN acc
    ELSE LET k == IndexOfId(acc, list[i].id, 1)
         IN  DictFromList(list, i + 1,
                 IF k = 0 THEN Append(acc, list[i])
                 ELSE [acc EXCEPT ![k] = list[i]])

\* PatternRegistry.__init__: the _patterns dict; _detectors starts empty
RegistryInit(list) == DictFromList(list, 1, <<>>)

\* dict.get(key, default) and dict[key] = value
DictGet(d, k, default) == IF k \in DOMAIN d THEN d[k] ELSE default
DictSet(d, k, v) == [x \in DOMAIN d \cup {k} |-> IF x = k THEN v ELSE d[x]]

\* detector_cls(pattern): a detector object of the class the map gives the
\* detection type, holding the definition; obj tells two objects apart
NewDetector(pattern, obj) ==
    [cls |-> pattern.detection_type, pattern |-> pattern, obj |-> obj]

\* get_detector without the test of line 22: a detector is constructed and
\* stored on every call
GetDetectorAlwaysNew(pats, dets, id) ==
    IF IndexOfId(pats, id, 1) = 0
    THEN [exc |-> "KeyError", detectors |-> dets, value |-> <<>>, constructed |-> 0]
    ELSE LET pattern == pats[IndexOfId(pats, id, 1)]
             dets1   == DictSet(dets, id,
                            NewDetector(pattern, Cardinality(DOMAIN dets) + 1))
         IN  IF pattern.detection_type \notin DETECTOR_MAP
             THEN [exc |-> "ValueError", detectors |-> dets, value |-> <<>>,
                   constructed |-> 0]
             ELSE [exc |-> "", detectors |-> dets1, value |-> <<dets1[id]>>,
                   constructed |-> 1]

\* PatternRegistry.get_detector: the outcome, the detector returned, the cache
\* after the call and the number of detectors the call constructed.  An id
\* the registry has no definition for is a KeyError of _patterns[pattern_id].
GetDetector(pats, dets, id) ==
    IF id \in DOMAIN dets
    THEN [exc |-> "", detectors |-> dets, value |-> <<dets[id]>>, constructed |-> 0]
    ELSE IF IndexOfId(pats, id, 1) = 0
    THEN [exc |-> "KeyError", detectors |-> dets, value |-> <<>>, constructed |-> 0]
    ELSE LET pattern == pats[IndexOfId(pats, id, 1)]
             dets1   == DictSet(dets, id,
                            NewDetector(pattern, Cardinality(DOMAIN dets) + 1))
         IN  IF pattern.detection_type \notin DETECTOR_MAP
             THEN [exc |-> "ValueError", detectors |-> dets, value |-> <<>>,
                   constructed |-> 0]
             ELSE [exc |-> "", detectors |-> dets1, value |-> <<dets1[id]>>,
                   constructed |-> 1]

\* detector.detect of the detector class the map gives the pattern
Detect(p, doc) ==
    CASE p.detection_type = "regex" -> RegexDetect(p, doc)
      [] p.detection_type = "frequency" -> FrequencyDetect(p, doc)
      [] p.detection_type = "structural" -> StructuralDetect(p, doc)

----------------------------------------------------------------------------
(* core/analyzer.py *)

RECURSIVE RunLoopAbort(_, _, _, _, _)
RunLoopAbort(pats, i, doc, dets, acc) ==
    IF i > Len(pats) THEN [results |-> acc, detectors |-> dets]
    ELSE LET g == GetDetector(pats, dets, pats[i].id)
         IN  IF g.exc # "" THEN [results |-> acc, detectors |-> g.detectors]
             ELSE LET d == Detect(g.value[1].pattern, doc)
                  IN  IF d.exc # "" THEN [results |-> acc, detectors |-> g.detectors]
                      ELSE RunLoopAbort(pats, i + 1, doc, g.detectors,
                                        Append(acc, d.value[1]))

RECURSIVE RunLoop(_, _, _, _, _)
\* the loop of Analyzer.run: a pattern whose get_detector or detect raises is
\* skipped, every other one appends its result
RunLoop(pats, i, doc, dets, acc) ==
    IF i > Len(pats) THEN [results |-> acc, detectors |-> dets]
    ELSE LET g == GetDetector(pats, dets, pats[i].id)
         IN  IF g.exc # "" THEN RunLoop(pats, i + 1, doc, g.detectors, acc)
             ELSE LET d == Detect(g.value[1].pattern, doc)
                  IN  RunLoop(pats, i + 1, doc, g.detectors,
                              IF d.exc # "" THEN acc ELSE Append(acc, d.value[1]))

\* the loop body of _aggregate: one result added to the two dicts
AccumulateOverwrite(acc, r) ==
    [sums   |-> DictSet(acc.sums, r.category, RMul(r.normalized_score, r.weight)),
     totals |-> DictSet(acc.totals, r.category, r.weight)]

AccumulateUnweighted(acc, r) ==
    [sums   |-> DictSet(acc.sums, r.category,
                        RAdd(DictGet(acc.sums, r.category, Zero),
                             r.normalized_score)),
     totals |-> DictSet(acc.totals, r.category,
                        RAdd(DictGet(acc.totals, r.category, Zero), One))]

Accumulate(acc, r) ==
    [sums   |-> DictSet(acc.sums, r.category,
                        RAdd(DictGet(acc.sums, r.category, Zero),
                             RMul(r.normalized_score, r.weight))),
     totals |-> DictSet(acc.totals, r.category,
                        RAdd(DictGet(acc.totals, r.category, Zero), r.weight))]

RECURSIVE AggregateLoop(_, _, _)
AggregateLoop(rs, i, acc) ==
    IF i > Len(rs) THEN acc
    ELSE AggregateLoop(rs, i + 1, Accumulate(acc, rs[i]))

\* weighted_mean(cat), the closure of _aggregate
WeightedMean(acc, cat) ==
    LET total_weight == DictGet(acc.totals, cat, Zero)
    IN  IF total_weight = Zero THEN Zero
        ELSE RDiv(DictGet(acc.sums, cat, Zero), total_weight)

\* Analyzer._aggregate
Aggregate(rs) ==
    LET acc == AggregateLoop(rs, 1, [sums |-> <<>>, totals |-> <<>>])
    IN  ScoreVector(WeightedMean(acc, "punctuation"), WeightedMean(acc, "phrases"),
                    WeightedMean(acc, "structure"), WeightedMean(acc, "emoji"),
                    WeightedMean(acc, "vocabulary"), rs)

\* Analyzer.run: the ScoreVector and the registry's detector cache afterwards
AnalyzerRun(pats, dets, doc) ==
    LET out == RunLoop(pats, 1, doc, dets, <<>>)
    IN  [score_vector |-> Aggregate(out.results), detectors |-> out.detectors]

----------------------------------------------------------------------------
(* models/config.py and core/scorer.py *)

\* Python's None
None == "None"

WeightConfig(punctuation, phrases, structure, vocabulary, emoji) ==
    [punctuation |-> punctuation, phrases |-> phrases, structure |-> structure,
     vocabulary |-> vocabulary, emoji |-> emoji]

\* WeightConfig(): the dataclass defaults 0.25, 0.35, 0.20, 0.10, 0.10
DefaultWeights ==
    WeightConfig(Rat(25, 100), Rat(35, 100), Rat(20, 100), Rat(10, 100), Rat(10, 100))

AppConfig(weights, likely_ai_threshold, likely_human_threshold) ==
    [weights |-> weights, likely_ai_threshold |-> likely_ai_threshold,
     likely_human_threshold |-> likely_human_threshold]

\* AppConfig(patterns_dir, weights): the default thresholds 65 and 30
DefaultConfig(weights) == AppConfig(weights, 65, 30)

\* lines 18-24 of compute_aggregate: the weighted sum of the category scores
WeightedSum(sv, weights) ==
    RAdd(RAdd(RAdd(RAdd(RMul(sv.punctuation, weights.punctuation),
                        RMul(sv.phrases, weights.phrases)),
                   RMul(sv.structure, weights.structure)),
              RMul(sv.emoji, weights.emoji)),
         RMul(sv.vocabulary, weights.vocabulary))

\* lines 25-26: round(raw * 100), then max(0, min(100, aggregate))
Scale(raw) == IMax(0, IMin(100, PyRound(RMul(raw, Rat(100, 1)))))

\* lines 28-33: the label of an aggregate under the configured thresholds
Label(aggregate, cfg) ==
    IF aggregate <= cfg.likely_human_threshold THEN "LIKELY HUMAN"
    ELSE IF aggregate >= cfg.likely_ai_threshold THEN "LIKELY AI"
    ELSE "UNCERTAIN"

\* the keyword arguments compute_aggregate passes to AggregateResult(...)
ComputeAggregateKwargs ==
    {"url", "file_path", "word_count", "score_vector", "aggregate_score",
     "label", "published_date", "title"}

\* compute_aggregate: its locals raw, aggregate and label, and how the call
\* AggregateResult(...) of lines 35-44 ends; a keyword that is no field of the
\* dataclass makes the generated __init__ raise TypeError
ComputeAggregate(sv, cfg, url, file_path, word_count, published_date, title) ==
    LET raw       == WeightedSum(sv, cfg.weights)
        aggregate == Scale(raw)
        label     == Label(aggregate, cfg)
    IN  [raw |-> raw, aggregate |-> aggregate, label |-> label,
         exc |-> IF ComputeAggregateKwargs \subseteq AggregateResultFields
                 THEN "" ELSE "TypeError",
         value |-> IF ComputeAggregateKwargs \subseteq AggregateResultFields
                   THEN <<[url |-> url, file_path |-> file_path,
                           word_count |-> word_count, score_vector |-> sv,
                           aggregate_score |-> aggregate, label |-> label,
                           published_date |-> published_date, title |-> title,
                           model_match |-> None]>>
                   ELSE <<>>]

----------------------------------------------------------------------------
(* Values of the variables a specification does not use *)

NoCall == [op |-> "", exc |-> ""]
NoConfig == DefaultConfig(DefaultWeights)

IdleRegistry == /\ patterns = <<>> /\ detectors = <<>>
IdleAnalysis == /\ results = <<>> /\ score_vector = <<>>
IdleScorer   == /\ config = NoConfig /\ agg = <<>>
IdleDb       == /\ scans = {} /\ pattern_scores = {}
IdleDoc      == document = <<>>
IdleLoader   == files = <<>>
IdleBatch    == /\ tasks = <<>> /\ semaphore = 0 /\ batch = <<>>
IdleThreads  == threads = <<>>
IdleWeb      == /\ scan_status = <<>> /\ scan_last_completed = <<>>
                /\ background_tasks = <<>> /\ now = 0

----------------------------------------------------------------------------
(* SpecAggregate: Analyzer._aggregate applied to lists of PatternResults    *)

\* (normalized score, weight) pairs of the results drawn
ScoreWeightPairs == {<<One, One>>, <<Zero, Half>>, <<Half, Zero>>, <<Half, One>>}

ResultPool ==
    { PatternResult("p", c, sw[1], sw[1], sw[2], "") :
        c \in Categories, sw \in ScoreWeightPairs }

SeqsUpTo(S, n) == UNION { [1..k -> S] : k \in 0..n }

InitAggregate ==
    /\ IdleWeb
    /\ results \in SeqsUpTo(ResultPool, MaxResults)
    /\ score_vector = <<>>
    /\ call = NoCall
    /\ IdleRegistry /\ IdleScorer /\ IdleDb /\ IdleDoc
    /\ IdleLoader /\ IdleBatch /\ IdleThreads

\* analyzer._aggregate(results)
AggregateCall ==
    /\ call.op = ""
    /\ score_vector' = <<Aggregate(results)>>
    /\ call' = [op |-> "_aggregate", exc |-> ""]
    /\ UNCHANGED <<scan_status, scan_last_completed,
                   background_tasks, now, patterns, detectors, results, config, agg, scans,
                   pattern_scores, document,
                   files, tasks, semaphore, batch, threads>>

NextAggregate == AggregateCall

SpecAggregate == InitAggregate /\ [][NextAggregate]_vars

RECURSIVE SumOver(_, _)
\* the sum of f[i] over the finite index set I
SumOver(f, I) ==
    IF I = {} THEN Zero
    ELSE LET i == CHOOSE x \in I : TRUE
         IN  RAdd(f[i], SumOver(f, I \ {i}))

\* sum(normalizedScore * weight) / sum(weight) over the results of a category,
\* 0 when the weights sum to 0
CategoryMean(rs, cat) ==
    LET I == { i \in 1..Len(rs) : rs[i].category = cat }
        W == SumOver([i \in 1..Len(rs) |-> rs[i].weight], I)
        S == SumOver([i \in 1..Len(rs) |-> RMul(rs[i].normalized_score, rs[i].weight)], I)
    IN  IF W = Zero THEN Zero ELSE RDiv(S, W)

\* C1: after _aggregate, each of the five category scores is the weighted mean
\* sum(normalizedScore * weight) / sum(weight) of the results of that category,
\* and exactly 0 when that category's total weight is 0 (or it has no results)
C1_CategoryMeans ==
    call.op = "_aggregate" =>
        /\ \A cat \in Categories : score_vector[1][cat] = CategoryMean(results, cat)
        /\ score_vector[1].pattern_results = results

\* a category with results of total weight 0 and one with none got 0, another
\* one a mean of two results of different weights
C1_Witness ==
    /\ call.op = "_aggregate"
    /\ \E c1, c2, c3 \in Categories :
          /\ \E i \in 1..Len(results) : results[i].category = c1
          /\ \A i \in 1..Len(results) : results[i].category = c1 => results[i].weight = Zero
          /\ \A i \in 1..Len(results) : results[i].category # c2
          /\ score_vector[1][c1] = Zero /\ score_vector[1][c2] = Zero
          /\ score_vector[1][c3] = Rat(1, 3)

Reorderings(n) == { f \in [1..n -> 1..n] : \A i, j \in 1..n : f[i] = f[j] => i = j }

Means(sv) == [cat \in Categories |-> sv[cat]]

----------------------------------------------------------------------------
(* SpecScorer: compute_aggregate applied to score vectors and configurations *)

ScoreValues == {Zero, Half, One}

ScoreVectors ==
    { ScoreVector(a, b, c, d, e, <<>>) :
        a \in ScoreValues, b \in ScoreValues, c \in ScoreValues,
        d \in ScoreValues, e \in ScoreValues }

\* the configurations drawn: the defaults; all weight on phrases; thresholds
\* other than the defaults; weights a weight file can hold that sum to 1 with
\* one of them negative; weights set in code that sum to more than 1
Configs ==
    { DefaultConfig(DefaultWeights),
      DefaultConfig(WeightConfig(Zero, One, Zero, Zero, Zero)),
      AppConfig(DefaultWeights, 50, 25),
      DefaultConfig(WeightConfig(Rat(-1, 2), Rat(3, 2), Zero, Zero, Zero)),
      DefaultConfig(WeightConfig(One, One, One, One, One)) }

Identities == {<<"http://a.com/1", None>>, <<None, "notes.txt">>}

InitScorer ==
    /\ IdleWeb
    /\ score_vector \in { <<sv>> : sv \in ScoreVectors }
    /\ config \in Configs
    /\ agg = <<>>
    /\ results = <<>>
    /\ call = NoCall
    /\ IdleRegistry /\ IdleDb /\ IdleDoc
    /\ IdleLoader /\ IdleBatch /\ IdleThreads

\* compute_aggregate(score_vector, config, url=, file_path=, word_count=,
\*                   published_date=, title=)
ComputeAggregateCall(ident, word_count, published_date, title) ==
    /\ agg' = <<ComputeAggregate(score_vector[1], config, ident[1], ident[2],
                                 word_count, published_date, title)>>
    /\ call' = [op |-> "compute_aggregate", exc |-> agg'[1].exc,
                url |-> ident[1], file_path |-> ident[2],
                word_count |-> word_count, published_date |-> published_date,
                title |-> title]
    /\ UNCHANGED <<scan_status, scan_last_completed,
                   background_tasks, now, patterns, detectors, results, score_vector, config, scans,
                   pattern_scores, document,
                   files, tasks, semaphore, batch, threads>>

NextScorer ==
    \E ident \in Identities, word_count \in {0, MaxCount},
       published_date \in {None, "2024-03-15"}, title \in {None, "A title"} :
        ComputeAggregateCall(ident, word_count, published_date, title)

SpecScorer == InitScorer /\ [][NextScorer]_vars

\* the weighted sum of the five category scores, times 100
Scaled(sv, weights) ==
    RMul(Rat(100, 1),
         SumOver([c \in Categories |-> RMul(sv[c], weights[c])], Categories))

\* n is a nearest integer to the rational q: |n - q| <= 1/2
Nearest(n, q) == 2 * Abs(n * q[2] - q[1]) <= q[2]

\* n is the nearest integer to q, clamped to [0, 100]
ScaledRoundedClamped(n, q) ==
    \/ n = 0 /\ \E m \in -1000..0 : Nearest(m, q)
    \/ n = 100 /\ \E m \in 100..1000 : Nearest(m, q)
    \/ n \in 0..100 /\ Nearest(n, q)

\* C2: compute_aggregate returns an AggregateResult whose aggregateScore is the
\* weighted sum of the five category scores times 100, rounded to the nearest
\* integer and clamped to [0,100], and which carries the url/filePath,
\* wordCount, title and publishedDate it was given
C2_ReturnsAggregate ==
    call.op = "compute_aggregate" =>
        /\ call.exc = ""
        /\ Len(agg[1].value) = 1
        /\ ScaledRoundedClamped(agg[1].value[1].aggregate_score,
                                Scaled(score_vector[1], config.weights))
        /\ agg[1].value[1].url = call.url
        /\ agg[1].value[1].file_path = call.file_path
        /\ agg[1].value[1].word_count = call.word_count
        /\ agg[1].value[1].title = call.title
        /\ agg[1].value[1].published_date = call.published_date

\* the label of an aggregate by the thresholds of a configuration
ExpectedLabel(aggregate, cfg) ==
    CASE aggregate <= cfg.likely_human_threshold -> "LIKELY HUMAN"
      [] aggregate > cfg.likely_human_threshold
            /\ aggregate >= cfg.likely_ai_threshold -> "LIKELY AI"
      [] OTHER -> "UNCERTAIN"

\* C3: the result compute_aggregate returns is labelled LIKELY HUMAN when its
\* aggregate is at most likelyHumanThreshold, LIKELY AI when it is at least
\* likelyAiThreshold, and UNCERTAIN otherwise, the thresholds being those of
\* the configuration
C3_ReturnsLabel ==
    call.op = "compute_aggregate" =>
        /\ call.exc = ""
        /\ Len(agg[1].value) = 1
        /\ agg[1].value[1].label
              = ExpectedLabel(agg[1].value[1].aggregate_score, config)

\* what compute_aggregate had computed when the constructor call raised: the
\* aggregate and the label of lines 18-33 are the ones C2 and C3 describe
ComputeAggregateLocals ==
    call.op = "compute_aggregate" =>
        /\ ScaledRoundedClamped(agg[1].aggregate,
                                Scaled(score_vector[1], config.weights))
        /\ agg[1].label = ExpectedLabel(agg[1].aggregate, config)

\* the boundary aggregates 30, 65 and 50 under the default thresholds
ComputeAggregateLocalsSeen ==
    /\ call.op = "compute_aggregate"
    /\ config = DefaultConfig(DefaultWeights)
    /\ agg[1].aggregate = 30

----------------------------------------------------------------------------
(* Spec: a registry built from a list of definitions, and Analyzer.run      *)

Two == Rat(2, 1)

\* the definitions the catalogs are drawn from; each passes __post_init__
PatternPool ==
    { PatternDef("em_dash", "punctuation", One, "regex",
                 [threshold_low |-> Zero, threshold_high |-> Two, per_n_words |-> 1]),
      PatternDef("em_dash", "punctuation", Half, "regex",
                 [threshold_low |-> Half, threshold_high |-> One, per_n_words |-> 1]),
      PatternDef("filler", "punctuation", Half, "frequency",
                 [threshold_low |-> Zero, threshold_high |-> One]),
      PatternDef("delve", "vocabulary", Zero, "frequency",
                 [threshold_low |-> Zero, threshold_high |-> One, per_n_words |-> 1]),
      PatternDef("bullets", "structure", One, "structural",
                 [metric |-> "bullet_density", threshold_low |-> Zero,
                  threshold_high |-> One]),
      PatternDef("line_length", "structure", One, "structural",
                 [metric |-> "line_length", threshold_low |-> Zero,
                  threshold_high |-> One]),
      PatternDef("burstiness", "structure", One, "linguistic",
                 [metric |-> "sentence_burstiness", threshold_low |-> Zero,
                  threshold_high |-> One]),
      PatternDef("unbounded", "phrases", One, "regex",
                 [threshold_low |-> Zero, per_n_words |-> 1]) }

\* lists of different definitions of the pool, as a loader would return them
PatternLists ==
    { l \in SeqsUpTo(PatternPool, MaxPatterns) :
        \A i, j \in 1..Len(l) : l[i] = l[j] => i = j }

\* documents in which only the measurements the pool's detectors take vary
PipelineDocs ==
    { d \in Docs : d.headers = 0 /\ d.chars = 0 /\ d.emojis = 0
                   /\ d.paragraphs = 0 /\ d.cv = Zero }

Init ==
    /\ IdleWeb
    /\ \E l \in PatternLists : patterns = RegistryInit(l)
    /\ detectors = <<>>
    /\ document \in { <<d>> : d \in PipelineDocs }
    /\ results = <<>>
    /\ score_vector = <<>>
    /\ call = NoCall
    /\ IdleScorer /\ IdleDb
    /\ IdleLoader /\ IdleBatch /\ IdleThreads

\* analyzer.run(text, word_count)
Run ==
    /\ LET out == AnalyzerRun(patterns, detectors, document[1])
       IN  /\ score_vector' = <<out.score_vector>>
           /\ results' = out.score_vector.pattern_results
           /\ detectors' = out.detectors
    /\ call' = [op |-> "run", exc |-> ""]
    /\ UNCHANGED <<scan_status, scan_last_completed,
                   background_tasks, now, patterns, config, agg, scans, pattern_scores, document,
                   files, tasks, semaphore, batch, threads>>

Next == Run

Spec == Init /\ [][Next]_vars

\* the definition a result was computed from
PatternOf(r) == patterns[IndexOfId(patterns, r.pattern_id, 1)]

\* C4: every result built by _make_result has a normalized score in [0,1] that
\* is the clamp of its raw value between its pattern's thresholds (low < high):
\* 0 at or below thresholdLow, 1 at or above thresholdHigh, and
\* (raw - low) / (high - low) strictly between them
C4_NormalizedIsClamp ==
    call.op = "run" =>
        \A i \in 1..Len(results) :
            LET r    == results[i]
                low  == PatternOf(r).params.threshold_low
                high == PatternOf(r).params.threshold_high
            IN  /\ RLe(Zero, r.normalized_score) /\ RLe(r.normalized_score, One)
                /\ RLe(r.raw_value, low) => r.normalized_score = Zero
                /\ RLe(high, r.raw_value) => r.normalized_score = One
                /\ RLt(low, r.raw_value) /\ RLt(r.raw_value, high) =>
                      RMul(r.normalized_score, RSub(high, low)) = RSub(r.raw_value, low)

\* a raw value at the midpoint of the thresholds gave 0.5, one at or below the
\* low threshold 0, one above the high threshold 1
C4_Witness ==
    /\ call.op = "run"
    /\ Len(results) = 2
    /\ results[1].raw_value = One /\ results[1].normalized_score = Half
    /\ PatternOf(results[1]).params.threshold_low = Zero
    /\ PatternOf(results[1]).params.threshold_high = Two
    /\ RLt(One, results[2].raw_value) /\ results[2].normalized_score = One

\* whether getting the detector of a definition, or its detect, raises
PatternRaises(p, d) ==
    \/ p.detection_type \notin DETECTOR_MAP
    \/ Detect(p, d).exc # ""

\* C5: Analyzer.run completes, and the pattern results of its ScoreVector are
\* the results of exactly the registry's patterns that did not raise, one per
\* pattern and in catalog order, the category means being those of these
\* survivors
C5_RunSkipsFailures ==
    call.op = "run" =>
        LET survivors == SelectSeq(patterns, LAMBDA p : ~PatternRaises(p, document[1]))
        IN  /\ call.exc = ""
            /\ Len(results) = Len(survivors)
            /\ \A i \in 1..Len(survivors) :
                  results[i] = Detect(survivors[i], document[1]).value[1]
            /\ score_vector[1].pattern_results = results
            /\ \A cat \in Categories :
                  score_vector[1][cat] = CategoryMean(results, cat)

\* a run in which the first pattern raised and the second one produced the
\* only result
C5_Witness ==
    /\ call.op = "run"
    /\ Len(patterns) = 2
    /\ PatternRaises(patterns[1], document[1])
    /\ Len(results) = 1
    /\ results[1].pattern_id = patterns[2].id
    /\ score_vector[1][results[1].category] = One

\* C9: every PatternResult detect produces carries patternId, category and
\* weight of its definition and, as patternVersion, the definition's version
C9_ResultsCarryVersion ==
    call.op = "run" =>
        \A i \in 1..Len(results) :
            LET r == results[i]
            IN  /\ r.category = PatternOf(r).category
                /\ r.weight = PatternOf(r).weight
                /\ "version" \in DOMAIN PatternOf(r)
                /\ "pattern_version" \in DOMAIN r
                /\ r.pattern_version = PatternOf(r).version

----------------------------------------------------------------------------
(* db/database.py and db/queries.py                                         *)
(* A scans row is [id, url, domain, file_path, word_count, score, label,   *)
(* published_date, title]; a pattern_scores row is [id, scan_id,           *)
(* pattern_id, category, raw_value, norm_score, pattern_version].          *)
(* score_json and scanned_at are left out: no query modelled reads them.   *)

\* the urls of the model, in the order sorted() gives them
Urls == <<"http://a.com/1", "http://a.com/2", "http://b.org/1">>

UrlSet == { Urls[i] : i \in 1..Len(Urls) }

\* urlparse(url).netloc
Netloc(url) ==
    CASE url \in {"http://a.com/1", "http://a.com/2"} -> "a.com"
      [] url = "http://b.org/1" -> "b.org"
      [] OTHER -> ""

\* sorted(stale): the urls of a set as a list in ascending order
SortedUrls(S) == SelectSeq(Urls, LAMBDA u : u \in S)

SetMax(S) == IF S = {} THEN 0 ELSE CHOOSE m \in S : \A x \in S : x <= m
SetMin(S) == CHOOSE m \in S : \A x \in S : m <= x

\* COALESCE(a, b)
Coalesce(a, b) == IF a # None THEN a ELSE b

\* the attributes of the AggregateResult that store_result reads to build the
\* parameters of its INSERT (lines 21 and 38-49)
StoreResultReads ==
    {"url", "file_path", "word_count", "aggregate_score", "label",
     "score_vector", "scanned_at", "published_date", "title"}

\* lines 23-50: INSERT ... ON CONFLICT(url) DO UPDATE; a NULL url conflicts
\* with nothing
Upsert(sc, result) ==
    IF result.url # None /\ \E s \in sc : s.url = result.url
    THEN { IF s.url = result.url
           THEN [s EXCEPT !.word_count = result.word_count,
                          !.score = result.aggregate_score,
                          !.label = result.label,
                          !.published_date =
                              Coalesce(result.published_date, s.published_date),
                          !.title = Coalesce(result.title, s.title)]
           ELSE s : s \in sc }
    ELSE sc \cup { [id |-> SetMax({ s.id : s \in sc }) + 1,
                    url |-> result.url,
                    domain |-> IF result.url # None THEN Netloc(result.url) ELSE "",
                    file_path |-> result.file_path,
                    word_count |-> result.word_count,
                    score |-> result.aggregate_score,
                    label |-> result.label,
                    published_date |-> result.published_date,
                    title |-> result.title] }

\* lines 52-55: the ids SELECT id FROM scans WHERE url = ? OR (url IS NULL AND
\* file_path = ?) yields; a comparison with NULL matches nothing
ScanIdsOf(sc, result) ==
    { s.id : s \in { s \in sc :
        \/ result.url # None /\ s.url = result.url
        \/ s.url = None /\ result.file_path # None
                        /\ s.file_path = result.file_path } }

\* lines 61-69: the rows inserted for the pattern results
PatternScoreRows(ps, scan_id, prs) ==
    { [id |-> SetMax({ r.id : r \in ps }) + i, scan_id |-> scan_id,
       pattern_id |-> prs[i].pattern_id, category |-> prs[i].category,
       raw_value |-> prs[i].raw_value, norm_score |-> prs[i].normalized_score,
       pattern_version |-> prs[i].pattern_version] : i \in 1..Len(prs) }

\* store_result: how it ends, the id it returns and the tables afterwards as
\* the connection sees them.  Reading an attribute the dataclass does not have
\* raises AttributeError: for the AggregateResult while the INSERT's
\* parameters are built, before any statement runs; for a PatternResult
\* after the upsert and the DELETE, before the commit.
StoreResult(sc, ps, result) ==
    IF ~(StoreResultReads \subseteq AggregateResultFields)
    THEN [exc |-> "AttributeError", scan_id |-> 0, scans |-> sc,
          pattern_scores |-> ps]
    ELSE LET sc1 == Upsert(sc, result)
             ids == ScanIdsOf(sc1, result)
         IN  IF ids = {}
             THEN [exc |-> "TypeError", scan_id |-> 0, scans |-> sc1,
                   pattern_scores |-> ps]
             ELSE LET scan_id == SetMin(ids)
                      ps1 == { r \in ps : r.scan_id # scan_id }
                      prs == result.score_vector.pattern_results
                  IN  IF prs # <<>> /\ "pattern_version" \notin PatternResultFields
                      THEN [exc |-> "AttributeError", scan_id |-> 0,
                            scans |-> sc1, pattern_scores |-> ps1]
                      ELSE [exc |-> "", scan_id |-> scan_id, scans |-> sc1,
                            pattern_scores |-> ps1 \cup PatternScoreRows(ps1, scan_id, prs)]

\* get_stale_urls with <= in place of < in the version test
GetStaleUrlsAtMost(sc, ps, current_versions, domain) ==
    SortedUrls(UNION {
        { s.url : s \in { s \in sc :
            /\ \E r \in ps : /\ r.scan_id = s.id
                             /\ r.pattern_id = pattern_id
                             /\ r.pattern_version <= current_versions[pattern_id]
            /\ s.url # None
            /\ (domain \notin {None, ""} => s.domain = domain) } }
        : pattern_id \in DOMAIN current_versions })

\* get_stale_urls taking a scan without a row for the pattern as stale too
GetStaleUrlsMissingStale(sc, ps, current_versions, domain) ==
    SortedUrls(UNION {
        { s.url : s \in { s \in sc :
            /\ \A r \in ps : (r.scan_id = s.id /\ r.pattern_id = pattern_id)
                                 => r.pattern_version < current_versions[pattern_id]
            /\ s.url # None
            /\ (domain \notin {None, ""} => s.domain = domain) } }
        : pattern_id \in DOMAIN current_versions })

\* get_stale_urls: one query per pattern id of current_versions, the urls
\* joined in a set and returned sorted; "if domain:" skips None and ""
GetStaleUrls(sc, ps, current_versions, domain) ==
    SortedUrls(UNION {
        { s.url : s \in { s \in sc :
            /\ \E r \in ps : /\ r.scan_id = s.id
                             /\ r.pattern_id = pattern_id
                             /\ r.pattern_version < current_versions[pattern_id]
            /\ s.url # None
            /\ (domain \notin {None, ""} => s.domain = domain) } }
        : pattern_id \in DOMAIN current_versions })

----------------------------------------------------------------------------
(* The database: store_result and get_stale_urls over stored scans          *)

MaxVersion == 2

\* the pattern ids whose scores the stored scans hold
StoredPatternIds == {"em_dash", "delve"}

CategoryOfStored(pattern_id) ==
    IF pattern_id = "em_dash" THEN "punctuation" ELSE "vocabulary"

\* AggregateResult(...): the dataclass built directly, with the fields it has
AggregateResult(url, file_path, word_count, sv, aggregate_score, label) ==
    [url |-> url, file_path |-> file_path, word_count |-> word_count,
     score_vector |-> sv, aggregate_score |-> aggregate_score,
     label |-> label, scanned_at |-> "2025-01-01T00:00:00", model_match |-> None]

\* What a database file holds for one url: no row, or a scans row with, for
\* each pattern id, no score row (0) or one score row at a version.  The
\* DELETE before the INSERT of store_result leaves a scan the rows of one
\* analysis, so a scan has at most one row for a pattern id.  _migrate opens
\* files written before this code, so the rows are any the SCHEMA admits.
StoredOptions ==
    { o \in [present : BOOLEAN, versions : [StoredPatternIds -> 0..MaxVersion]] :
        ~o.present => \A pattern_id \in StoredPatternIds : o.versions[pattern_id] = 0 }

\* the id AUTOINCREMENT gave the row of the i-th url
StoredScanId(content, i) ==
    Cardinality({ j \in 1..i : content[Urls[j]].present })

StoredPatternIndex(pattern_id) == IF pattern_id = "em_dash" THEN 1 ELSE 2

StoredScans(content, file) ==
    { [id |-> StoredScanId(content, i), url |-> Urls[i],
       domain |-> Netloc(Urls[i]), file_path |-> None, word_count |-> MaxCount,
       score |-> 50, label |-> "UNCERTAIN",
       published_date |-> IF i = 1 THEN "2024-03-15" ELSE None,
       title |-> IF i = 1 THEN "A title" ELSE None]
      : i \in { j \in 1..Len(Urls) : content[Urls[j]].present } }
    \cup
    IF file
    THEN { [id |-> StoredScanId(content, Len(Urls)) + 1, url |-> None,
            domain |-> "", file_path |-> "notes.txt", word_count |-> MaxCount,
            score |-> 50, label |-> "UNCERTAIN", published_date |-> None,
            title |-> None] }
    ELSE {}

StoredPatternScores(content, file) ==
    { [id |-> 2 * (StoredScanId(content, i) - 1) + StoredPatternIndex(pattern_id),
       scan_id |-> StoredScanId(content, i), pattern_id |-> pattern_id,
       category |-> CategoryOfStored(pattern_id), raw_value |-> One,
       norm_score |-> Half,
       pattern_version |-> content[Urls[i]].versions[pattern_id]]
      : <<i, pattern_id>> \in
          { x \in (1..Len(Urls)) \X StoredPatternIds :
              content[Urls[x[1]]].versions[x[2]] > 0 } }
    \cup
    IF file
    THEN { [id |-> 2 * StoredScanId(content, Len(Urls)) + 1,
            scan_id |-> StoredScanId(content, Len(Urls)) + 1,
            pattern_id |-> "em_dash", category |-> "punctuation",
            raw_value |-> One, norm_score |-> Half, pattern_version |-> 1] }
    ELSE {}

InitDb ==
    /\ IdleWeb
    /\ \E content \in [UrlSet -> StoredOptions], file \in BOOLEAN :
         /\ scans = StoredScans(content, file)
         /\ pattern_scores = StoredPatternScores(content, file)
    /\ call = NoCall
    /\ IdleRegistry /\ IdleAnalysis /\ IdleScorer /\ IdleDoc
    /\ IdleLoader /\ IdleBatch /\ IdleThreads

\* the {pattern_id: version} maps a registry can hand to get_stale_urls
VersionMaps ==
    UNION { [ids -> 1..MaxVersion] : ids \in SUBSET StoredPatternIds }

\* get_stale_urls(conn, current_versions, domain)
GetStaleUrlsCall(current_versions, domain) ==
    /\ call' = [op |-> "get_stale_urls", exc |-> "",
                current_versions |-> current_versions, domain |-> domain,
                value |-> GetStaleUrls(scans, pattern_scores,
                                       current_versions, domain)]
    /\ UNCHANGED <<scan_status, scan_last_completed,
                   background_tasks, now, patterns, detectors, results, score_vector, config, agg,
                   scans, pattern_scores, document,
                   files, tasks, semaphore, batch, threads>>

\* store_result(conn, result) for the result of analysing the document at url
\* (or the file, for a url of None) under the loaded patterns.  published_date
\* is the date the caller holds for the document (FetchResult.published_date);
\* pattern_results are the results of the analysis.
StoreResultCall(url, published_date, pattern_results) ==
    LET file_path == IF url = None THEN "notes.txt" ELSE None
        result == AggregateResult(url, file_path, MaxCount,
                      ScoreVector(Zero, Zero, Zero, Zero, Zero, pattern_results),
                      80, "LIKELY AI")
        out    == StoreResult(scans, pattern_scores, result)
    IN  /\ scans' = out.scans
        /\ pattern_scores' = out.pattern_scores
        /\ call' = [op |-> "store_result", exc |-> out.exc, url |-> url,
                    file_path |-> file_path, published_date |-> published_date,
                    pattern_results |-> pattern_results,
                    scan_id |-> out.scan_id]
        /\ UNCHANGED <<scan_status, scan_last_completed,
                       background_tasks, now, patterns, detectors, results, score_vector, config, agg,
                       document,
                       files, tasks, semaphore, batch, threads>>

NextDb ==
    \/ \E current_versions \in VersionMaps,
          domain \in {None, "", "a.com", "b.org"} :
           GetStaleUrlsCall(current_versions, domain)
    \/ \E url \in UrlSet \cup {None},
          published_date \in {None, "2025-01-01"},
          pattern_results \in
              {<<>>, <<PatternResult("em_dash", "punctuation", One, Half, One, "")>>} :
           StoreResultCall(url, published_date, pattern_results)

SpecDb == InitDb /\ [][NextDb]_vars

\* the urls a list returns
Returned_Urls(value) == { value[i] : i \in 1..Len(value) }

\* the versions stored for a url and a pattern id
StoredVersions(url, pattern_id) ==
    { r.pattern_version : r \in { r \in pattern_scores :
        /\ r.pattern_id = pattern_id
        /\ \E s \in scans : s.url = url /\ s.id = r.scan_id } }

\* the document stored under url is stale for current_versions, within the
\* domain when one is given
IsStale(url, current_versions, domain) ==
    /\ \E s \in scans : s.url = url
    /\ domain \in {None, ""} \/ Netloc(url) = domain
    /\ \E pattern_id \in DOMAIN current_versions :
         /\ StoredVersions(url, pattern_id) # {}
         /\ SetMax(StoredVersions(url, pattern_id)) < current_versions[pattern_id]

\* C7: get_stale_urls returns, each once, exactly the urls of the stored
\* documents (of the domain, when one is given) for which some pattern id of
\* the current map has a stored maximum version strictly below the current
\* one; a document whose stored versions are all at or above the current
\* ones is not returned.
C7_StaleExactly ==
    call.op = "get_stale_urls" =>
        /\ Returned_Urls(call.value)
             = { url \in UrlSet : IsStale(url, call.current_versions, call.domain) }
        /\ \A i, j \in 1..Len(call.value) : i < j => call.value[i] # call.value[j]
        /\ \A url \in UrlSet :
             (\A pattern_id \in DOMAIN call.current_versions :
                 \A v \in StoredVersions(url, pattern_id) :
                     v >= call.current_versions[pattern_id])
             => url \notin Returned_Urls(call.value)

\* a query restricted to a.com that returns the first url only, while the
\* second is stored with every version current and the b.org url is stale
C7_Witness ==
    /\ call.op = "get_stale_urls"
    /\ call.domain = "a.com"
    /\ call.value = <<"http://a.com/1">>
    /\ \E pattern_id \in DOMAIN call.current_versions :
         StoredVersions("http://a.com/2", pattern_id) # {}
    /\ IsStale("http://b.org/1", call.current_versions, None)

\* the versions of the loaded patterns after every pattern was bumped
LoadedVersions == [pattern_id \in StoredPatternIds |-> MaxVersion]

\* C8: a document stored with pattern P at version 1 is returned once P's
\* loaded version is 2, one stored with P at version 2 is not, and a document
\* that was stored again under the loaded versions is no longer stale.
C8_RestoreClearsStale ==
    /\ call.op = "get_stale_urls" /\ call.domain = None =>
         \A url \in UrlSet : \A pattern_id \in DOMAIN call.current_versions :
             /\ (StoredVersions(url, pattern_id) = {1}
                    /\ call.current_versions[pattern_id] = 2)
                => url \in Returned_Urls(call.value)
             /\ (DOMAIN call.current_versions = {pattern_id}
                    /\ StoredVersions(url, pattern_id) = {2}
                    /\ call.current_versions[pattern_id] = 2)
                => url \notin Returned_Urls(call.value)
    /\ call.op = "store_result" /\ call.url # None =>
         ~IsStale(call.url, LoadedVersions, None)

\* the published_date stored for a url, None when it has no row
StoredPublishedDate(sc, url) ==
    IF \E s \in sc : s.url = url
    THEN (CHOOSE s \in sc : s.url = url).published_date
    ELSE None

\* C10: a store for a url leaves the url a row whose published_date is the
\* date supplied when that is not null, and the date stored before when the
\* supplied one is null.
C10_UpsertCoalesce ==
    [][(call'.op = "store_result" /\ call'.url # None) =>
          /\ \E s \in scans' : s.url = call'.url
          /\ StoredPublishedDate(scans', call'.url)
               = Coalesce(call'.published_date,
                          StoredPublishedDate(scans, call'.url))]_vars

\* the pattern score rows attached to the scans row of a url, without the
\* row ids
AttachedScores(url) ==
    { [pattern_id |-> r.pattern_id, category |-> r.category,
       raw_value |-> r.raw_value, norm_score |-> r.norm_score]
      : r \in { r \in pattern_scores :
                  \E s \in scans : s.url = url /\ s.id = r.scan_id } }

\* C11: the scans table holds at most one row for a url, and after a store
\* for a url that row has the score, label and word count of the result
\* stored (80, LIKELY AI, MaxCount for every result the model stores) and the
\* pattern score rows attached to it are exactly the result's pattern results.
C11_IdempotentUpsert ==
    /\ \A s1, s2 \in scans : (s1.url = s2.url /\ s1.url # None) => s1 = s2
    /\ (call.op = "store_result" /\ call.url # None) =>
         /\ \E s \in scans : /\ s.url = call.url
                             /\ s.score = 80 /\ s.label = "LIKELY AI"
                             /\ s.word_count = MaxCount
         /\ AttachedScores(call.url)
              = { [pattern_id |-> call.pattern_results[i].pattern_id,
                   category |-> call.pattern_results[i].category,
                   raw_value |-> call.pattern_results[i].raw_value,
                   norm_score |-> call.pattern_results[i].normalized_score]
                  : i \in 1..Len(call.pattern_results) }

----------------------------------------------------------------------------
(* patterns/loader.py: the pattern documents and the weights document of a  *)
(* patterns directory, load_patterns and load_weight_config                 *)

MaxFiles == 2

\* the fields of the PatternDef dataclass
PatternDefFields ==
    {"id", "name", "description", "category", "weight", "detection_type",
     "params", "severity", "references", "added_by"}

\* _parse_pattern, line 84
RequiredFields ==
    {"id", "name", "description", "category", "weight", "detection_type", "params"}

\* a YAML scalar that is no number, for which float(x) is a ValueError
NotANumber == <<0, 0>>

IsNumber(x) == x[2] # 0

\* PatternDef(**kwargs): a keyword that is no field is a TypeError, then
\* __post_init__ validates
ConstructPatternDef(kwargs) ==
    IF ~(DOMAIN kwargs \subseteq PatternDefFields) THEN Raised("TypeError")
    ELSE IF ~PatternDefValid(kwargs) THEN Raised("ValueError")
    ELSE Returned(kwargs)

\* _parse_pattern: the keywords of lines 91-101, optional fields defaulted
ParsePatternKwargs(data) ==
    [id |-> data.id, name |-> data.name, description |-> data.description,
     category |-> data.category, weight |-> data.weight,
     detection_type |-> data.detection_type, params |-> data.params,
     version |-> DictGet(data, "version", 1),
     severity |-> DictGet(data, "severity", "medium"),
     references |-> DictGet(data, "references", <<>>),
     added_by |-> DictGet(data, "added_by", "")]

\* _parse_pattern: TypeError and ValueError become PatternLoadError
ParsePattern(data) ==
    IF ~(RequiredFields \subseteq DOMAIN data) THEN Raised("PatternLoadError")
    ELSE IF ~IsNumber(data.weight) THEN Raised("PatternLoadError")
    ELSE LET made == ConstructPatternDef(ParsePatternKwargs(data))
         IN  IF made.exc \in {"TypeError", "ValueError"}
             THEN Raised("PatternLoadError")
             ELSE made

\* _load_yaml: a document that is no mapping is a PatternLoadError
LoadYaml(content) ==
    IF content.kind # "mapping" THEN Raised("PatternLoadError")
    ELSE Returned(content.data)

\* lines 25-28: files load_patterns passes over
Skipped(file) == file.underscore \/ file.in_models

\* lines 30-35: one file of the loop
LoadOne(file) ==
    LET data == LoadYaml(file.content)
    IN  IF data.exc # "" THEN data ELSE ParsePattern(data.value[1])

RECURSIVE LoadLoop(_, _, _)
\* load_patterns: the loop over the sorted files; the first PatternLoadError
\* is raised again with the file's name in front
LoadLoop(fs, i, acc) ==
    IF i > Len(fs) THEN [exc |-> "", file |-> "", value |-> acc]
    ELSE IF Skipped(fs[i]) THEN LoadLoop(fs, i + 1, acc)
    ELSE LET one == LoadOne(fs[i])
         IN  IF one.exc # ""
             THEN [exc |-> one.exc, file |-> fs[i].name, value |-> <<>>]
             ELSE LoadLoop(fs, i + 1, Append(acc, one.value[1]))

LoadPatterns(fs) == LoadLoop(fs, 1, <<>>)

\* WeightConfig.validate: abs(total - 1.0) > 0.01 raises ValueError
Tolerance == Rat(1, 100)

WeightTotal(w) ==
    RAdd(RAdd(RAdd(RAdd(w.punctuation, w.phrases), w.structure), w.vocabulary),
         w.emoji)

ValidateExact(w) == IF WeightTotal(w) # One THEN Raised("ValueError") ELSE Returned(w)

Validate(w) ==
    LET diff == RSub(WeightTotal(w), One)
    IN  IF RLt(Tolerance, Rat(Abs(diff[1]), diff[2]))
        THEN Raised("ValueError")
        ELSE Returned(w)

\* load_weight_config: the defaults when there is no _weights.yaml; else the
\* weights of the document's "weights" mapping, a missing one defaulted,
\* converted by float() and validated
LoadWeightConfig(wfile) ==
    IF ~wfile.exists THEN Returned(DefaultWeights)
    ELSE LET data == LoadYaml(wfile.content)
         IN  IF data.exc # "" THEN data
             ELSE LET wd == DictGet(data.value[1], "weights", <<>>)
                      at(cat) == DictGet(wd, cat, DefaultWeights[cat])
                  IN  IF \E cat \in DOMAIN wd : ~IsNumber(wd[cat])
                      THEN Raised("ValueError")
                      ELSE Validate(WeightConfig(at("punctuation"), at("phrases"),
                                                 at("structure"), at("vocabulary"),
                                                 at("emoji")))

\* a pattern document with every required field and no optional one
ValidData ==
    [id |-> "em_dash", name |-> "Em dash", description |-> "em dashes",
     category |-> "punctuation", weight |-> Half, detection_type |-> "regex",
     params |-> [threshold_low |-> Zero, threshold_high |-> Two]]

Without(data, field) == [k \in DOMAIN data \ {field} |-> data[k]]

Mapping(data) == [kind |-> "mapping", data |-> data]

\* the contents the pattern documents are drawn from: valid ones without and
\* with a version, two of them with the same id, and ones with one defect each
PatternContents ==
    { Mapping(ValidData),
      Mapping(DictSet(ValidData, "weight", One)),
      Mapping(DictSet(DictSet(ValidData, "id", "delve"), "version", 2)),
      Mapping(Without(ValidData, "weight")),
      Mapping(DictSet(ValidData, "weight", Rat(3, 2))),
      Mapping(DictSet(ValidData, "weight", NotANumber)),
      Mapping(DictSet(ValidData, "category", "tone")),
      Mapping(DictSet(ValidData, "detection_type", "semantic")),
      [kind |-> "list", data |-> <<>>] }

\* weights documents: the first four weights dyadic, the last one varied, so
\* that the totals lie at, just inside and just outside 1.0 +- 0.01
WeightsOf(last) ==
    [punctuation |-> Rat(1, 4), phrases |-> Rat(1, 4), structure |-> Rat(1, 4),
     vocabulary |-> Rat(1, 8), emoji |-> last]

WeightsFiles ==
    { [exists |-> FALSE, content |-> Mapping(<<>>)],
      [exists |-> TRUE, content |-> Mapping(<<>>)],
      [exists |-> TRUE, content |-> [kind |-> "list", data |-> <<>>]],
      [exists |-> TRUE, content |-> Mapping([weights |-> [phrases |-> Half]])],
      [exists |-> TRUE,
       content |-> Mapping([weights |-> WeightConfig(One, One, One, One, One)])] }
    \cup
    { [exists |-> TRUE, content |-> Mapping([weights |-> WeightsOf(last)])]
      : last \in { Rat(1, 8), Rat(15, 128), Rat(17, 128), Rat(7, 64), Rat(9, 64),
                   NotANumber } }

PatternFileNames == <<"p1.yaml", "p2.yaml", "p3.yaml">>

\* sorted(patterns_dir.rglob("*.yaml")): _weights.yaml, models/gpt.yaml, then
\* the pattern documents
Listing(wfile, profile, contents) ==
    (IF wfile.exists
     THEN << [name |-> "_weights.yaml", underscore |-> TRUE, in_models |-> FALSE,
              content |-> wfile.content] >>
     ELSE <<>>)
    \o (IF profile
        THEN << [name |-> "models/gpt.yaml", underscore |-> FALSE,
                 in_models |-> TRUE,
                 content |-> Mapping([profile |-> [em_dash |-> Half]])] >>
        ELSE <<>>)
    \o [i \in 1..Len(contents) |->
          [name |-> PatternFileNames[i], underscore |-> FALSE,
           in_models |-> FALSE, content |-> contents[i]]]

InitLoader ==
    /\ IdleWeb
    /\ \E wfile \in WeightsFiles, profile \in BOOLEAN,
          contents \in SeqsUpTo(PatternContents, MaxFiles) :
         files = [listing |-> Listing(wfile, profile, contents), weights |-> wfile]
    /\ call = NoCall
    /\ IdleRegistry /\ IdleAnalysis /\ IdleScorer /\ IdleDb /\ IdleDoc
    /\ IdleBatch /\ IdleThreads

\* load_patterns(patterns_dir)
LoadPatternsCall ==
    /\ LET out == LoadPatterns(files.listing)
       IN  call' = [op |-> "load_patterns", exc |-> out.exc, file |-> out.file,
                    value |-> out.value]
    /\ UNCHANGED <<scan_status, scan_last_completed,
                   background_tasks, now, patterns, detectors, results, score_vector, config, agg,
                   scans, pattern_scores, document, files, tasks, semaphore,
                   batch, threads>>

\* load_weight_config(patterns_dir)
LoadWeightConfigCall ==
    /\ LET out == LoadWeightConfig(files.weights)
       IN  call' = [op |-> "load_weight_config", exc |-> out.exc,
                    value |-> out.value]
    /\ UNCHANGED <<scan_status, scan_last_completed,
                   background_tasks, now, patterns, detectors, results, score_vector, config, agg,
                   scans, pattern_scores, document, files, tasks, semaphore,
                   batch, threads>>

\* cli/main.py, aidar(): both loads, then the registry and the AppConfig the
\* commands score with; an exception of either load ends the program
Startup ==
    /\ LET lp == LoadPatterns(files.listing)
           lw == LoadWeightConfig(files.weights)
       IN  IF lp.exc # ""
           THEN /\ call' = [op |-> "aidar", exc |-> lp.exc]
                /\ UNCHANGED <<scan_status, scan_last_completed,
                               background_tasks, now, patterns, config>>
           ELSE IF lw.exc # ""
           THEN /\ call' = [op |-> "aidar", exc |-> lw.exc]
                /\ UNCHANGED <<scan_status, scan_last_completed,
                               background_tasks, now, patterns, config>>
           ELSE /\ call' = [op |-> "aidar", exc |-> ""]
                /\ patterns' = RegistryInit(lp.value)
                /\ config' = DefaultConfig(lw.value[1])
    /\ UNCHANGED <<scan_status, scan_last_completed,
                   background_tasks, now, detectors, results, score_vector, agg, scans, pattern_scores,
                   document, files, tasks, semaphore, batch, threads>>

NextLoader == LoadPatternsCall \/ LoadWeightConfigCall \/ Startup

SpecLoader == InitLoader /\ [][NextLoader]_vars

\* the pattern documents of the directory: the files load_patterns parses
PatternFiles == SelectSeq(files.listing, LAMBDA f : ~Skipped(f))

\* a document with one of the defects named: a required field missing, a
\* weight outside [0,1], a category or detection type outside the allowed sets
NamedDefect(content) ==
    /\ content.kind = "mapping"
    /\ \/ ~(RequiredFields \subseteq DOMAIN content.data)
       \/ /\ IsNumber(content.data.weight)
          /\ ~(RLe(Zero, content.data.weight) /\ RLe(content.data.weight, One))
       \/ content.data.category \notin Categories
       \/ content.data.detection_type \notin DetectionTypes

\* a document no definition can be made from
Defective(content) ==
    \/ content.kind # "mapping"
    \/ NamedDefect(content)
    \/ ~IsNumber(content.data.weight)

\* load_patterns fails and returns nothing when a document has a named defect
LoadPatternsFailsFast ==
    (call.op = "load_patterns"
       /\ \E i \in 1..Len(PatternFiles) : NamedDefect(PatternFiles[i].content))
    => (call.exc = "PatternLoadError" /\ call.value = <<>>)

LoadPatternsFailsFastSeen ==
    /\ call.op = "load_patterns"
    /\ \E i \in 1..Len(PatternFiles) : NamedDefect(PatternFiles[i].content)
    /\ call.exc = "PatternLoadError"

\* C12: when a pattern document has a named defect, load_patterns fails with a
\* load error that names a defective document and returns no definitions; the
\* definitions of a catalog that loads have a weight in [0,1], a category of
\* the five and a detection type of the four.
C12_FailFast ==
    call.op = "load_patterns" =>
        /\ (\E i \in 1..Len(PatternFiles) : NamedDefect(PatternFiles[i].content))
           => /\ call.exc = "PatternLoadError"
              /\ call.value = <<>>
              /\ \E i \in 1..Len(PatternFiles) :
                    /\ PatternFiles[i].name = call.file
                    /\ Defective(PatternFiles[i].content)
        /\ call.exc = "" =>
              \A i \in 1..Len(call.value) : PatternDefValid(call.value[i])

\* C13: a directory whose pattern documents all have every required field
\* with valid values loads, each document giving a definition with the
\* version it supplies, or 1, and with severity medium, no references and an
\* empty added_by when it omits them.
C13_ParseDefaults ==
    (call.op = "load_patterns"
       /\ \A i \in 1..Len(PatternFiles) : ~Defective(PatternFiles[i].content))
    => /\ call.exc = ""
       /\ Len(call.value) = Len(PatternFiles)
       /\ \A i \in 1..Len(PatternFiles) :
            LET data == PatternFiles[i].content.data
            IN  /\ call.value[i].id = data.id
                /\ call.value[i].version = DictGet(data, "version", 1)
                /\ call.value[i].severity = "medium"
                /\ call.value[i].references = <<>>
                /\ call.value[i].added_by = ""

\* the weights load_weight_config builds a WeightConfig from
EffectiveWeights(wfile) ==
    [cat \in Categories |->
        IF /\ wfile.exists
           /\ "weights" \in DOMAIN wfile.content.data
           /\ cat \in DOMAIN wfile.content.data.weights
        THEN wfile.content.data.weights[cat]
        ELSE DefaultWeights[cat]]

\* the five weights sum to within 0.01 of 1.0
WithinTolerance(w) ==
    LET total == SumOver([cat \in Categories |-> w[cat]], Categories)
    IN  100 * Abs(total[1] - total[2]) <= total[2]

----------------------------------------------------------------------------
(* SpecRegistry: get_detector and detect calls on one registry              *)

\* the ids get_detector is called with: those of the pool and one no
\* definition has
RegistryIds == { p.id : p \in PatternPool } \cup {"missing"}

\* documents for the detect calls: one word count, no terms
RegistryDocs == { d \in PipelineDocs : d.word_count = 1 /\ d.terms = 0 }

InitRegistry ==
    /\ IdleWeb
    /\ \E l \in PatternLists : patterns = RegistryInit(l)
    /\ detectors = <<>>
    /\ call = NoCall
    /\ IdleAnalysis /\ IdleScorer /\ IdleDb /\ IdleDoc
    /\ IdleLoader /\ IdleBatch /\ IdleThreads

\* registry.get_detector(id)
GetDetectorCall(id) ==
    /\ LET out == GetDetector(patterns, detectors, id)
       IN  /\ detectors' = out.detectors
           /\ call' = [op |-> "get_detector", id |-> id, exc |-> out.exc,
                       value |-> out.value, constructed |-> out.constructed]
    /\ UNCHANGED <<scan_status, scan_last_completed,
                   background_tasks, now, patterns, results, score_vector, config, agg, scans,
                   pattern_scores, document, files, tasks, semaphore, batch,
                   threads>>

\* detector.detect(text, word_count) on a cached detector
DetectCall(id, doc) ==
    /\ id \in DOMAIN detectors
    /\ LET out == Detect(detectors[id].pattern, doc)
       IN  call' = [op |-> "detect", id |-> id, exc |-> out.exc,
                    value |-> out.value]
    /\ UNCHANGED <<scan_status, scan_last_completed,
                   background_tasks, now, patterns, detectors, results, score_vector, config, agg,
                   scans, pattern_scores, document, files, tasks, semaphore,
                   batch, threads>>

NextRegistry ==
    \/ \E id \in RegistryIds : GetDetectorCall(id)
    \/ \E id \in RegistryIds, doc \in RegistryDocs : DetectCall(id, doc)

SpecRegistry == InitRegistry /\ [][NextRegistry]_vars

\* C15: get_detector resolves every definition of the registry, whatever its
\* detection type, to a detector of that type.
C15_AllTypesResolve ==
    (call.op = "get_detector" /\ IndexOfId(patterns, call.id, 1) # 0) =>
        /\ call.exc = ""
        /\ call.value[1].cls = patterns[IndexOfId(patterns, call.id, 1)].detection_type

\* C16: a get_detector for an id already cached returns the cached detector
\* and constructs nothing; the first successful one constructs one detector,
\* different from every cached one, and caches it under the id without
\* touching the other entries; a failing one leaves the cache as it was; no
\* get_detector and no detect changes the definitions, and detect leaves the
\* cache unchanged.
C16_Memoized ==
    [][/\ call'.op = "get_detector" =>
            /\ patterns' = patterns
            /\ call'.id \in DOMAIN detectors =>
                  /\ call'.exc = "" /\ call'.constructed = 0
                  /\ call'.value = <<detectors[call'.id]>>
                  /\ detectors' = detectors
            /\ (call'.id \notin DOMAIN detectors /\ call'.exc = "") =>
                  /\ call'.constructed = 1
                  /\ DOMAIN detectors' = DOMAIN detectors \cup {call'.id}
                  /\ detectors'[call'.id] = call'.value[1]
                  /\ \A k \in DOMAIN detectors :
                        /\ detectors'[k] = detectors[k]
                        /\ detectors[k].obj # call'.value[1].obj
            /\ call'.exc # "" =>
                  /\ call'.constructed = 0
                  /\ detectors' = detectors
       /\ call'.op = "detect" =>
            /\ patterns' = patterns
            /\ detectors' = detectors]_vars

\* a get_detector answered from a cache of two detectors
C16_Witness ==
    /\ call.op = "get_detector"
    /\ call.exc = "" /\ call.constructed = 0
    /\ Cardinality(DOMAIN detectors) = 2
    /\ call.value[1] = detectors[call.id]

----------------------------------------------------------------------------
(* cli/scan.py: _bulk_scan and its _scan_one coroutines (track.run builds   *)
(* the same coroutines over the same kind of semaphore)                     *)

MaxConcurrency == 2

\* the text a fetched page is extracted to, as the detectors see it
FetchedDoc ==
    [word_count |-> MaxCount, matches |-> 1, terms |-> 0, lines |-> 1,
     bullet_lines |-> 0, headers |-> 0, chars |-> 0, emojis |-> 0,
     paragraphs |-> 0, cv |-> Zero]

\* core/fetcher.py, FetchResult: an object with four slots
FetchResult(text, word_count, title, published_date) ==
    [type |-> "FetchResult", text |-> text, word_count |-> word_count,
     title |-> title, published_date |-> published_date]

\* how fetch_url_async ends for a page: an HTTP or request error and a page
\* without extractable text raise FetchError, any other page gives a
\* FetchResult
FetchOutcomes == {"http_error", "no_text", "ok"}

FetchUrlAsync(outcome) ==
    IF outcome = "ok"
    THEN Returned(FetchResult(FetchedDoc, FetchedDoc.word_count, "A title",
                              "2024-03-15"))
    ELSE Raised("FetchError")

\* a, b = value: only a tuple (or other iterable) of two items unpacks
UnpackPair(value) ==
    IF value.type # "tuple" THEN Raised("TypeError")
    ELSE IF Len(value.items) # 2 THEN Raised("ValueError")
    ELSE Returned(value.items)

\* _scan_one after the await of line 159: what the coroutine returns and the
\* detector cache afterwards; every exception is answered with None
ScanOneBody(url, fetched, pats, dets, cfg) ==
    IF fetched.exc # "" THEN [value |-> None, detectors |-> dets]
    ELSE LET pair == UnpackPair(fetched.value[1])
         IN  IF pair.exc # "" THEN [value |-> None, detectors |-> dets]
             ELSE LET run == AnalyzerRun(pats, dets, pair.value[1][1])
                      res == ComputeAggregate(run.score_vector, cfg, url, None,
                                              pair.value[1][2], None, None)
                  IN  [value |-> IF res.exc # "" THEN None ELSE res.value[1],
                       detectors |-> run.detectors]

\* asyncio.Semaphore.acquire returns when the value is positive
CanAcquireAlways(value) == TRUE

CanAcquire(value) == value > 0

RECURSIVE KeepResults(_, _, _)
\* lines 145-149: the raw results that are neither an exception nor None
KeepResults(raw, i, acc) ==
    IF i > Len(raw) THEN acc
    ELSE KeepResults(raw, i + 1, IF raw[i] = None THEN acc ELSE Append(acc, raw[i]))

InitBatch ==
    /\ IdleWeb
    /\ \E concurrency \in 1..MaxConcurrency, delay \in {0, 1} :
         /\ batch = [concurrency |-> concurrency, delay |-> delay,
                     pc |-> "gather", results |-> <<>>]
         /\ semaphore = concurrency
    /\ tasks = [url \in UrlSet |-> [pc |-> "acquire", fetched |-> "", result |-> None]]
    /\ patterns = RegistryInit(<< PatternDef("em_dash", "punctuation", One, "regex",
                                     [threshold_low |-> Zero, threshold_high |-> Two,
                                      per_n_words |-> 1]) >>)
    /\ detectors = <<>>
    /\ config = NoConfig
    /\ call = NoCall
    /\ IdleAnalysis /\ agg = <<>> /\ IdleDb /\ IdleDoc /\ IdleLoader /\ IdleThreads

\* async with semaphore: the coroutine passes the gate
Acquire(url) ==
    /\ tasks[url].pc = "acquire"
    /\ CanAcquire(semaphore)
    /\ semaphore' = semaphore - 1
    /\ tasks' = [tasks EXCEPT ![url].pc =
                    IF batch.delay > 0 THEN "sleep" ELSE "fetch"]
    /\ UNCHANGED <<scan_status, scan_last_completed,
                   background_tasks, now, patterns, detectors, results, score_vector, config, agg,
                   scans, pattern_scores, document, call, files, batch, threads>>

\* await asyncio.sleep(delay) returns
Wake(url) ==
    /\ tasks[url].pc = "sleep"
    /\ tasks' = [tasks EXCEPT ![url].pc = "fetch"]
    /\ UNCHANGED <<scan_status, scan_last_completed,
                   background_tasks, now, patterns, detectors, results, score_vector, config, agg,
                   scans, pattern_scores, document, call, files, semaphore,
                   batch, threads>>

\* await fetch_url_async(url, client) returns or raises; the rest of the body
\* runs without another await, and leaving the async with releases the
\* semaphore
FetchDone(url, outcome) ==
    /\ tasks[url].pc = "fetch"
    /\ LET out == ScanOneBody(url, FetchUrlAsync(outcome), patterns, detectors,
                              config)
       IN  /\ tasks' = [tasks EXCEPT ![url] =
                           [pc |-> "done", fetched |-> outcome,
                            result |-> out.value]]
           /\ detectors' = out.detectors
    /\ semaphore' = semaphore + 1
    /\ UNCHANGED <<scan_status, scan_last_completed,
                   background_tasks, now, patterns, results, score_vector, config, agg, scans,
                   pattern_scores, document, call, files, batch, threads>>

\* asyncio.gather returns once every coroutine has; _bulk_scan returns the
\* results kept, in the order of the urls
Gather ==
    /\ batch.pc = "gather"
    /\ \A url \in UrlSet : tasks[url].pc = "done"
    /\ batch' = [batch EXCEPT !.pc = "returned",
                   !.results = KeepResults([i \in 1..Len(Urls) |->
                                               tasks[Urls[i]].result], 1, <<>>)]
    /\ UNCHANGED <<scan_status, scan_last_completed,
                   background_tasks, now, patterns, detectors, results, score_vector, config, agg,
                   scans, pattern_scores, document, call, files, tasks,
                   semaphore, threads>>

NextBatch ==
    \/ \E url \in UrlSet : Acquire(url)
    \/ \E url \in UrlSet : Wake(url)
    \/ \E url \in UrlSet, outcome \in FetchOutcomes : FetchDone(url, outcome)
    \/ Gather

SpecBatch == InitBatch /\ [][NextBatch]_vars

\* the documents past the admission gate
PastGate == { url \in UrlSet : tasks[url].pc \in {"sleep", "fetch"} }

\* C17: at most `concurrency` documents are past the gate at any time, and
\* the semaphore holds exactly the slots not in use: a coroutine that is
\* done, whether its fetch succeeded or failed, has given its slot back.
C17_BoundedConcurrency ==
    /\ Cardinality(PastGate) <= batch.concurrency
    /\ semaphore = batch.concurrency - Cardinality(PastGate)

\* every slot is taken while another coroutine waits at the gate and a third,
\* whose fetch failed, is done
C17_Witness ==
    /\ Cardinality(PastGate) = batch.concurrency
    /\ \E url \in UrlSet : tasks[url].pc = "acquire"
    /\ \E url \in UrlSet : tasks[url].pc = "done" /\ tasks[url].fetched = "http_error"

\* C18: the list the batch returns holds exactly one result, for that url,
\* for every url whose fetch and extraction succeeded, and none for a url
\* whose fetch failed.
C18_IndependentUnits ==
    batch.pc = "returned" =>
        \A url \in UrlSet :
            Cardinality({ i \in 1..Len(batch.results) : batch.results[i].url = url })
              = IF tasks[url].fetched = "ok" THEN 1 ELSE 0

\* a failed fetch gives no result for its url, and the batch returns however
\* the fetches end
FailuresGiveNothing ==
    batch.pc = "returned" =>
        \A url \in UrlSet :
            tasks[url].fetched # "ok" =>
                \A i \in 1..Len(batch.results) : batch.results[i].url # url

----------------------------------------------------------------------------
(* SpecThreads: Analyzer.run calls on several threads over one registry,    *)
(* interleaved at every access to the registry's _detectors                 *)

MaxThreads == 2

ThreadIds == 1..MaxThreads

\* the documents the threads analyse
ThreadDocs ==
    { d \in RegistryDocs : d.lines = 1 /\ d.bullet_lines = 1 /\ d.matches # 1 }

\* self._detectors[pattern_id] = detector: one store into the shared dict
StoreDetectorAlone(dets, id, detector) == DictSet(<<>>, id, detector)

StoreDetector(dets, id, detector) == DictSet(dets, id, detector)

\* where a thread continues after the pattern at position i
AfterPattern(frame) ==
    [frame EXCEPT !.i = frame.i + 1,
                  !.pc = IF frame.i + 1 > Len(patterns) THEN "aggregate" ELSE "test"]

InitThreads ==
    /\ IdleWeb
    /\ \E l \in PatternLists : patterns = RegistryInit(l)
    /\ detectors = <<>>
    /\ \E docs \in [ThreadIds -> ThreadDocs] :
         threads = [t \in ThreadIds |->
                      [pc |-> IF Len(patterns) = 0 THEN "aggregate" ELSE "test",
                       i |-> 1, results |-> <<>>, document |-> docs[t],
                       detector |-> <<>>, score_vector |-> <<>>]]
    /\ call = NoCall
    /\ IdleAnalysis /\ IdleScorer /\ IdleDb /\ IdleDoc /\ IdleLoader /\ IdleBatch

\* registry.py line 22: if pattern_id not in self._detectors
TestCache(t) ==
    /\ threads[t].pc = "test"
    /\ threads' = [threads EXCEPT ![t].pc =
                      IF patterns[threads[t].i].id \in DOMAIN detectors
                      THEN "read" ELSE "make"]
    /\ UNCHANGED <<scan_status, scan_last_completed,
                   background_tasks, now, patterns, detectors, results, score_vector, config, agg,
                   scans, pattern_scores, document, call, files, tasks,
                   semaphore, batch>>

\* registry.py lines 23-29: resolve the class, raise for an unmapped type (the
\* except of Analyzer.run goes on to the next pattern), else construct the
\* detector and store it
MakeDetector(t) ==
    /\ threads[t].pc = "make"
    /\ LET pattern == patterns[threads[t].i]
       IN  IF pattern.detection_type \notin DETECTOR_MAP
           THEN /\ threads' = [threads EXCEPT ![t] = AfterPattern(threads[t])]
                /\ UNCHANGED detectors
           ELSE /\ detectors' = StoreDetector(detectors, pattern.id,
                                    NewDetector(pattern, <<t, threads[t].i>>))
                /\ threads' = [threads EXCEPT ![t].pc = "read"]
    /\ UNCHANGED <<scan_status, scan_last_completed,
                   background_tasks, now, patterns, results, score_vector, config, agg, scans,
                   pattern_scores, document, call, files, tasks, semaphore,
                   batch>>

\* registry.py line 30: return self._detectors[pattern_id]; a KeyError is
\* caught by Analyzer.run like any exception
ReadDetector(t) ==
    /\ threads[t].pc = "read"
    /\ LET id == patterns[threads[t].i].id
       IN  threads' = [threads EXCEPT ![t] =
              IF id \in DOMAIN detectors
              THEN [threads[t] EXCEPT !.pc = "detect", !.detector = <<detectors[id]>>]
              ELSE AfterPattern(threads[t])]
    /\ UNCHANGED <<scan_status, scan_last_completed,
                   background_tasks, now, patterns, detectors, results, score_vector, config, agg,
                   scans, pattern_scores, document, call, files, tasks,
                   semaphore, batch>>

\* analyzer.py lines 18-22: detect and append, or skip the pattern when
\* detect raises
DetectStep(t) ==
    /\ threads[t].pc = "detect"
    /\ LET out == Detect(threads[t].detector[1].pattern, threads[t].document)
       IN  threads' = [threads EXCEPT ![t] =
              AfterPattern([threads[t] EXCEPT !.results =
                  IF out.exc # "" THEN threads[t].results
                  ELSE Append(threads[t].results, out.value[1])])]
    /\ UNCHANGED <<scan_status, scan_last_completed,
                   background_tasks, now, patterns, detectors, results, score_vector, config, agg,
                   scans, pattern_scores, document, call, files, tasks,
                   semaphore, batch>>

\* analyzer.py line 24: return self._aggregate(results)
AggregateStep(t) ==
    /\ threads[t].pc = "aggregate"
    /\ threads' = [threads EXCEPT ![t].pc = "done",
                      ![t].score_vector = <<Aggregate(threads[t].results)>>]
    /\ UNCHANGED <<scan_status, scan_last_completed,
                   background_tasks, now, patterns, detectors, results, score_vector, config, agg,
                   scans, pattern_scores, document, call, files, tasks,
                   semaphore, batch>>

NextThreads ==
    \E t \in ThreadIds :
        \/ TestCache(t)
        \/ MakeDetector(t)
        \/ ReadDetector(t)
        \/ DetectStep(t)
        \/ AggregateStep(t)

SpecThreads == InitThreads /\ [][NextThreads]_vars

\* C19: whatever the interleaving, a run that has returned has returned the
\* ScoreVector the same run returns alone on a registry with an empty cache.
C19_RunsIndependent ==
    \A t \in DOMAIN threads :
        threads[t].pc = "done" =>
            threads[t].score_vector[1]
              = AnalyzerRun(patterns, <<>>, threads[t].document).score_vector

\* the race has happened: both runs have returned, and one of them detected
\* with a detector that the other run's store has since replaced in the cache
C19_Witness ==
    /\ threads # <<>>
    /\ \A t \in ThreadIds : threads[t].pc = "done" /\ Len(threads[t].results) >= 1
    /\ \E t \in ThreadIds :
         /\ threads[t].detector # <<>>
         /\ threads[t].detector[1].obj[1] = t
         /\ detectors[threads[t].detector[1].pattern.id].obj[1] # t

----------------------------------------------------------------------------
(* patterns/detectors/linguistic_detector.py, and SpecGuards: detect calls  *)
(* of structural and linguistic detectors on texts around the minimum       *)
(* sample sizes                                                             *)

MinParagraphs == 3
MinSentences == 4
MinWords == 50
MinContentWords == 30
MinKnownWords == 20

\* params.get(key, default)
ParamGet(p, key, default) == DictGet(p.params, key, default)

\* _sentence_burstiness; a sentence kept by _split_sentences has two words, so
\* the mean of the lengths is never 0
SentenceBurstiness(p, text) ==
    IF text.sentences < 4
    THEN MakeResult(p, Zero, "too few sentences")
    ELSE MakeResult(p, RMax(Zero, RSub(One, text.sentence_cv)),
                    "CV={cv:.2f} (burstiness={1-inverted:.2f})")

\* _type_token_ratio
TypeTokenRatio(p, text) ==
    IF text.words < 50
    THEN MakeResult(p, Zero, "too few words for TTR")
    ELSE MakeResult(p, RMax(Zero, RSub(One, text.sttr)), "STTR={avg_ttr:.3f}")

\* _question_rate
QuestionRate(p, text) ==
    IF text.sentences = 0
    THEN MakeResult(p, Zero, "no sentences")
    ELSE LET rate     == Rat(text.questions, text.sentences)
             high     == RMax(ParamGet(p, "threshold_high", Rat(2, 25)), Rat(1, 1000))
             inverted == RMin(One, RMax(Zero, RSub(One, RDiv(rate, high))))
             cap      == ParamGet(p, "score_cap", Rat(7, 10))
         IN  MakeResult(p, RMin(inverted, cap),
                        "{questions}/{len(sentences)} sentences are questions ({rate:.1%})")

\* _avg_sentence_length
AvgSentenceLength(p, text) ==
    IF text.sentences = 0
    THEN MakeResult(p, Zero, "no sentences")
    ELSE MakeResult(p, text.avg_sentence_length, "{avg:.1f} words/sentence avg")

\* the PatternResult(...) calls of _word_freq_variance: the keyword argument
\* pattern_version=self.pattern.version is evaluated before the call
WordFreqResult(p, raw, normalized, label) ==
    IF "version" \notin DOMAIN p THEN Raised("AttributeError")
    ELSE IF "pattern_version" \notin PatternResultFields THEN Raised("TypeError")
    ELSE Returned(PatternResult(p.id, p.category, raw, normalized, p.weight, label))

\* _word_freq_variance; round(std, 4) keeps the standard deviations used here
WordFreqVariance(p, text, wordfreq_available) ==
    IF ~wordfreq_available
    THEN WordFreqResult(p, Zero, Zero, "wordfreq not installed")
    ELSE IF text.content_words < 30
    THEN WordFreqResult(p, Zero, Zero, "too few content words")
    ELSE IF text.known_words < 20
    THEN WordFreqResult(p, Zero, Zero, "too few known words")
    ELSE LET t_low  == ParamGet(p, "threshold_low", Rat(7, 10))
             t_high == ParamGet(p, "threshold_high", Rat(5, 4))
             normalized ==
                 RMax(Zero, RMin(One, RDiv(RSub(t_high, text.zipf_std),
                                           RSub(t_high, t_low))))
         IN  WordFreqResult(p, text.zipf_std, normalized,
                            "Zipf std={std:.3f} over {len(freqs)} content words")

\* LinguisticDetector.detect: dispatch on params["metric"]
LinguisticDetect(p, text, wordfreq_available) ==
    IF "metric" \notin DOMAIN p.params THEN Raised("KeyError")
    ELSE CASE p.params.metric = "sentence_burstiness" -> SentenceBurstiness(p, text)
           [] p.params.metric = "type_token_ratio" -> TypeTokenRatio(p, text)
           [] p.params.metric = "question_rate" -> QuestionRate(p, text)
           [] p.params.metric = "avg_sentence_length" -> AvgSentenceLength(p, text)
           [] p.params.metric = "word_freq_variance" ->
                  WordFreqVariance(p, text, wordfreq_available)
           [] OTHER -> Raised("ValueError")

\* detect of a detector object, by its class
DetectorDetect(detector, text, wordfreq_available) ==
    IF detector.cls = "linguistic"
    THEN LinguisticDetect(detector.pattern, text, wordfreq_available)
    ELSE Detect(detector.pattern, text)

\* the definitions the guarded detectors are constructed from
GuardPatterns ==
    { PatternDef("paragraph_uniformity", "structure", One, "structural",
                 [metric |-> "paragraph_cv_inverted", threshold_low |-> Zero,
                  threshold_high |-> One]),
      PatternDef("ttr", "vocabulary", One, "linguistic",
                 [metric |-> "type_token_ratio", threshold_low |-> Zero,
                  threshold_high |-> One]),
      PatternDef("ttr_unbounded", "vocabulary", One, "linguistic",
                 [metric |-> "type_token_ratio"]),
      PatternDef("burstiness", "structure", One, "linguistic",
                 [metric |-> "sentence_burstiness", threshold_low |-> Zero,
                  threshold_high |-> One]),
      PatternDef("questions", "structure", Half, "linguistic",
                 [metric |-> "question_rate", threshold_low |-> Zero,
                  threshold_high |-> Half]),
      PatternDef("questions_capped", "structure", Half, "linguistic",
                 [metric |-> "question_rate", threshold_low |-> Zero,
                  threshold_high |-> Two, score_cap |-> Half]),
      PatternDef("sentence_length", "structure", Half, "linguistic",
                 [metric |-> "avg_sentence_length", threshold_low |-> Zero,
                  threshold_high |-> Rat(25, 1)]),
      PatternDef("word_freq", "vocabulary", One, "linguistic",
                 [metric |-> "word_freq_variance", threshold_low |-> Half,
                  threshold_high |-> Two]),
      PatternDef("readability", "vocabulary", One, "linguistic",
                 [metric |-> "readability", threshold_low |-> Zero,
                  threshold_high |-> One]) }

\* texts whose sample sizes lie on both sides of every minimum
GuardTexts ==
    { d \in [word_count : {MinWords}, matches : {0}, terms : {0}, lines : {1},
             bullet_lines : {0}, headers : {0}, chars : {1}, emojis : {0},
             paragraphs : {MinParagraphs - 1, MinParagraphs}, cv : {Half},
             sentences : {0, MinSentences - 1, MinSentences},
             sentence_cv : {Half}, questions : {0, 1},
             avg_sentence_length : {Rat(20, 1)},
             words : {MinWords - 1, MinWords}, sttr : {Half},
             content_words : {MinContentWords - 1, MinContentWords},
             known_words : {MinKnownWords - 1, MinKnownWords, MinContentWords},
             zipf_std : {One}] :
        /\ d.questions <= d.sentences
        /\ d.known_words <= d.content_words }

\* a detector constructed from one definition; document holds the last text
\* and whether the import of wordfreq succeeded
InitGuards ==
    /\ IdleWeb
    /\ \E p \in GuardPatterns :
         /\ patterns = RegistryInit(<<p>>)
         /\ detectors = DictSet(<<>>, p.id, NewDetector(p, 1))
    /\ \E text \in GuardTexts, available \in BOOLEAN : document = <<text, available>>
    /\ call = NoCall
    /\ IdleAnalysis /\ IdleScorer /\ IdleDb
    /\ IdleLoader /\ IdleBatch /\ IdleThreads

\* detector.detect(text, word_count)
GuardedDetect(text) ==
    /\ LET detector == detectors[patterns[1].id]
           out == DetectorDetect(detector, text, document[2])
       IN  call' = [op |-> "detect", id |-> detector.pattern.id, exc |-> out.exc,
                    value |-> out.value]
    /\ document' = <<text, document[2]>>
    /\ UNCHANGED <<scan_status, scan_last_completed,
                   background_tasks, now, patterns, detectors, results, score_vector, config, agg,
                   scans, pattern_scores, files, tasks, semaphore, batch,
                   threads>>

NextGuards == \E text \in GuardTexts : GuardedDetect(text)

SpecGuards == InitGuards /\ [][NextGuards]_vars

\* the minimum-sample guard of the metric applies to the text
BelowMinimum(metric, text, wordfreq_available) ==
    CASE metric = "paragraph_cv_inverted" -> text.paragraphs < MinParagraphs
      [] metric = "type_token_ratio" -> text.words < MinWords
      [] metric = "sentence_burstiness" -> text.sentences < MinSentences
      [] metric = "word_freq_variance" ->
             \/ ~wordfreq_available
             \/ text.content_words < MinContentWords
             \/ text.known_words < MinKnownWords
      [] OTHER -> FALSE

GuardLabels ==
    {"too few paragraphs to measure", "too few words for TTR",
     "too few sentences", "wordfreq not installed", "too few content words",
     "too few known words"}

\* the last call was a detect of a pattern with both thresholds on a text
\* below the minimum of one of the metrics in the set
GuardApplied(metrics) ==
    /\ call.op = "detect"
    /\ {"threshold_low", "threshold_high"} \subseteq DOMAIN patterns[1].params
    /\ patterns[1].params.metric \in metrics
    /\ BelowMinimum(patterns[1].params.metric, document[1], document[2])

GuardReturned ==
    /\ call.exc = ""
    /\ call.value[1].raw_value = Zero
    /\ call.value[1].label \in GuardLabels

\* C20: every minimum-sample guard returns a PatternResult with raw value 0.0
\* and a diagnostic label, and never raises: paragraph_cv_inverted below 3
\* paragraphs, type_token_ratio below 50 words, sentence_burstiness below 4
\* sentences, word_freq_variance below 30 content words, below 20 known words
\* or without wordfreq.
C20_GuardsReturn ==
    GuardApplied({"paragraph_cv_inverted", "type_token_ratio",
                  "sentence_burstiness", "word_freq_variance"})
        => GuardReturned

\* the guards that go through _make_result do return raw 0.0 with a label
MakeResultGuardsReturn ==
    GuardApplied({"paragraph_cv_inverted", "type_token_ratio",
                  "sentence_burstiness"})
        => GuardReturned

\* such a guard has been taken
MakeResultGuardsSeen ==
    /\ GuardApplied({"sentence_burstiness"})
    /\ document[1].sentences = MinSentences - 1
    /\ GuardReturned

\* the last call was a detect of a question_rate pattern that returned
QuestionRateReturned ==
    /\ call.op = "detect"
    /\ patterns[1].params.metric = "question_rate"
    /\ call.exc = ""

\* C21: for the question_rate metric the normalized score of the returned
\* PatternResult never exceeds score_cap (default 0.70), whatever the text,
\* one without any question sentence included.
C21_NormalizedCapped ==
    QuestionRateReturned =>
        RLe(call.value[1].normalized_score,
            ParamGet(patterns[1], "score_cap", Rat(7, 10)))

\* the raw value is what the cap bounds
QuestionRateRawCapped ==
    QuestionRateReturned =>
        RLe(call.value[1].raw_value,
            ParamGet(patterns[1], "score_cap", Rat(7, 10)))

\* a text without question sentences has been scored at the cap
QuestionRateRawCappedSeen ==
    /\ QuestionRateReturned
    /\ document[1].sentences > 0
    /\ document[1].questions = 0
    /\ call.value[1].raw_value = ParamGet(patterns[1], "score_cap", Rat(7, 10))

----------------------------------------------------------------------------
(* core/comparator.py, and SpecRank: rank_results on lists of results       *)

\* list[::-1]
Reverse(list) == [i \in 1..Len(list) |-> list[Len(list) + 1 - i]]

\* one step of a stable ascending sort: x goes behind every element whose key
\* is not greater than its own
RECURSIVE InsertByKey(_, _, _)
InsertByKey(x, sorted, i) ==
    IF i > Len(sorted) THEN Append(sorted, x)
    ELSE IF sorted[i].aggregate_score > x.aggregate_score
    THEN SubSeq(sorted, 1, i - 1) \o <<x>> \o SubSeq(sorted, i, Len(sorted))
    ELSE InsertByKey(x, sorted, i + 1)

\* the stable ascending sort by aggregate_score of list[i..]
RECURSIVE SortByKey(_, _, _)
SortByKey(list, i, sorted) ==
    IF i > Len(list) THEN sorted
    ELSE SortByKey(list, i + 1, InsertByKey(list[i], sorted, 1))

\* sorted(results, key=...)[::-1]
RankResultsNaive(list) == Reverse(SortByKey(list, 1, <<>>))

\* rank_results: sorted(results, key=lambda r: r.aggregate_score, reverse=True);
\* list.sort with reverse reverses the list, sorts it stably ascending and
\* reverses the outcome
RankResults(list) == Reverse(SortByKey(Reverse(list), 1, <<>>))

\* the aggregate scores of the results ranked
RankScores == {0, 50, 100}

\* results of different documents
RankPool ==
    { AggregateResult(url, None, MaxCount, ScoreVector(Zero, Zero, Zero, Zero, Zero, <<>>),
                      score, Label(score, NoConfig)) :
        url \in UrlSet, score \in RankScores }

RankLists ==
    { l \in SeqsUpTo(RankPool, MaxResults) :
        \A i, j \in 1..Len(l) : l[i].url = l[j].url => i = j }

InitRank ==
    /\ IdleWeb
    /\ batch \in RankLists
    /\ tasks = <<>>
    /\ semaphore = 0
    /\ call = NoCall
    /\ IdleRegistry /\ IdleAnalysis /\ IdleScorer /\ IdleDb /\ IdleDoc
    /\ IdleLoader /\ IdleThreads

\* ranked = rank_results(results)
RankResultsCall ==
    /\ call' = [op |-> "rank_results", exc |-> "", args |-> batch,
                value |-> RankResults(batch)]
    /\ UNCHANGED <<scan_status, scan_last_completed,
                   background_tasks, now, patterns, detectors, results, score_vector, config, agg,
                   scans, pattern_scores, document, files, tasks, semaphore,
                   batch, threads>>

NextRank == RankResultsCall

SpecRank == InitRank /\ [][NextRank]_vars

\* the position of the result of url in a list of results of different urls
PositionOf(list, url) == CHOOSE i \in 1..Len(list) : list[i].url = url

\* C22: rank_results returns a permutation of its input in descending order of
\* aggregate score in which results with equal scores keep the order they had
\* in the input, and leaves the input list as it was.
C22_StableDescending ==
    call.op = "rank_results" =>
        LET ranked == call.value
        IN  /\ batch = call.args
            /\ Len(ranked) = Len(batch)
            /\ { ranked[i] : i \in 1..Len(ranked) } = { batch[i] : i \in 1..Len(batch) }
            /\ \A i, j \in 1..Len(ranked) :
                 i < j =>
                   \/ ranked[i].aggregate_score > ranked[j].aggregate_score
                   \/ /\ ranked[i].aggregate_score = ranked[j].aggregate_score
                      /\ PositionOf(batch, ranked[i].url) < PositionOf(batch, ranked[j].url)

\* three results were ranked, two of them with equal scores behind a lower
\* one in the input
C22_Witness ==
    /\ call.op = "rank_results"
    /\ Len(batch) = 3
    /\ batch[1].aggregate_score < batch[2].aggregate_score
    /\ batch[2].aggregate_score = batch[3].aggregate_score
    /\ call.value = <<batch[2], batch[3], batch[1]>>

----------------------------------------------------------------------------
(* core/scorer.py compare_model_profile, and SpecProfile                    *)

\* abs(x) of a float
RAbs(a) == Rat(Abs(a[1]), a[2])

\* round(x, 3): to the nearest thousandth, a tie to the even one
Round3(x) == Rat(PyRound(RMul(x, Rat(1000, 1))), 1000)

\* sum(d.values())
RECURSIVE DictSum(_)
DictSum(d) ==
    IF DOMAIN d = {} THEN Zero
    ELSE LET k == CHOOSE x \in DOMAIN d : TRUE
         IN  RAdd(d[k], DictSum([x \in DOMAIN d \ {k} |-> d[x]]))

\* actual_results[0].normalized_score for a pattern id with results
FirstScore(rs, pattern_id) ==
    rs[CHOOSE i \in 1..Len(rs) :
          /\ rs[i].pattern_id = pattern_id
          /\ \A j \in 1..(i - 1) : rs[j].pattern_id # pattern_id].normalized_score

\* lines 55-62: the deviations dict
Deviations(sv, model_profile) ==
    LET rs == sv.pattern_results
        matched == { k \in DOMAIN model_profile :
                       \E i \in 1..Len(rs) : rs[i].pattern_id = k }
    IN  [k \in matched |-> RAbs(RSub(FirstScore(rs, k), model_profile[k]))]

\* a comparison that scores a profile id without a result as an actual 0
CompareModelProfileAllIds(sv, model_profile) ==
    LET rs == sv.pattern_results
        deviations ==
            [k \in DOMAIN model_profile |->
                IF \E i \in 1..Len(rs) : rs[i].pattern_id = k
                THEN RAbs(RSub(FirstScore(rs, k), model_profile[k]))
                ELSE RAbs(model_profile[k])]
        similarity ==
            IF DOMAIN deviations # {}
            THEN RSub(One, RDiv(DictSum(deviations),
                                Rat(Cardinality(DOMAIN deviations), 1)))
            ELSE Zero
    IN  [k \in {"similarity"} \cup DOMAIN deviations |->
            IF k \in DOMAIN deviations THEN Round3(deviations[k])
            ELSE Round3(similarity)]

\* compare_model_profile: in the dict returned the rounded deviations come
\* after the "similarity" key and replace it when a pattern has that id
CompareModelProfile(sv, model_profile) ==
    LET deviations == Deviations(sv, model_profile)
        similarity ==
            IF DOMAIN deviations # {}
            THEN RSub(One, RDiv(DictSum(deviations),
                                Rat(Cardinality(DOMAIN deviations), 1)))
            ELSE Zero
    IN  [k \in {"similarity"} \cup DOMAIN deviations |->
            IF k \in DOMAIN deviations THEN Round3(deviations[k])
            ELSE Round3(similarity)]

ProfileIds == {"em_dash", "delve", "similarity"}

\* model profiles: expected scores for some of the ids
ModelProfiles ==
    UNION { [ids -> {Zero, Rat(1, 16), Two}] : ids \in SUBSET ProfileIds }

\* the pattern results of the documents compared
ProfileResults ==
    { PatternResult(id, "phrases", score, score, One, "") :
        id \in ProfileIds, score \in {Zero, Half, One} }

InitProfile ==
    /\ IdleWeb
    /\ score_vector \in { <<Aggregate(rs)>> : rs \in SeqsUpTo(ProfileResults, MaxPatterns) }
    /\ results = <<>>
    /\ call = NoCall
    /\ IdleRegistry /\ IdleScorer /\ IdleDb /\ IdleDoc
    /\ IdleLoader /\ IdleBatch /\ IdleThreads

\* result.model_match = compare_model_profile(score_vector, profile)
CompareModelProfileCall(model_profile) ==
    /\ call' = [op |-> "compare_model_profile", exc |-> "",
                score_vector |-> score_vector[1], model_profile |-> model_profile,
                value |-> CompareModelProfile(score_vector[1], model_profile)]
    /\ UNCHANGED <<scan_status, scan_last_completed,
                   background_tasks, now, patterns, detectors, results, score_vector, config, agg,
                   scans, pattern_scores, document, files, tasks, semaphore,
                   batch, threads>>

NextProfile == \E model_profile \in ModelProfiles : CompareModelProfileCall(model_profile)

SpecProfile == InitProfile /\ [][NextProfile]_vars

\* the pattern ids present in both the profile and the pattern results
MatchedIds ==
    { k \in DOMAIN call.model_profile :
        \E i \in 1..Len(call.score_vector.pattern_results) :
            call.score_vector.pattern_results[i].pattern_id = k }

\* |actual - expected| of a matched id, actual being the normalized score of
\* the first result of that id
AbsDeviation(k) ==
    LET rs == call.score_vector.pattern_results
        first == CHOOSE i \in 1..Len(rs) :
                    /\ rs[i].pattern_id = k
                    /\ \A j \in 1..Len(rs) : rs[j].pattern_id = k => i <= j
        diff == RSub(rs[first].normalized_score, call.model_profile[k])
    IN  IF RLe(Zero, diff) THEN diff ELSE RSub(Zero, diff)

\* 1 - mean of the deviations of the matched ids, 0 when there is none
MeanSimilarity ==
    IF MatchedIds = {} THEN Zero
    ELSE RSub(One, RDiv(SumOver([k \in MatchedIds |-> AbsDeviation(k)], MatchedIds),
                        Rat(Cardinality(MatchedIds), 1)))

\* r is x to three decimals, a tie going to the even thousandth
IsThousandthsOf(r, x) ==
    /\ 1000 % r[2] = 0
    /\ LET d == RSub(x, r)
           n == r[1] * (1000 \div r[2])
       IN  \/ RLt(d, Rat(1, 2000)) /\ RLt(Rat(-1, 2000), d)
           \/ d \in {Rat(1, 2000), Rat(-1, 2000)} /\ n % 2 = 0

\* a comparison of a profile in which no matched pattern is named "similarity"
Compared ==
    /\ call.op = "compare_model_profile"
    /\ "similarity" \notin MatchedIds

----------------------------------------------------------------------------
(* SpecPipeline: analyzer.run followed by compute_aggregate, as the analyze *)
(* command chains them                                                      *)

\* a Regex pattern of weight 1.0 in phrases with thresholds [0, 1] counted
\* per 10 words
PhrasePattern ==
    PatternDef("phrase", "phrases", One, "regex",
               [threshold_low |-> Zero, threshold_high |-> One, per_n_words |-> 10])

PipelinePool ==
    { PhrasePattern,
      PatternDef("em_dash", "punctuation", Half, "regex",
                 [threshold_low |-> Zero, threshold_high |-> Rat(4, 1),
                  per_n_words |-> 10]),
      PatternDef("filler", "phrases", One, "frequency",
                 [threshold_low |-> Zero, threshold_high |-> Two]) }

PipelineLists ==
    { l \in SeqsUpTo(PipelinePool, MaxPatterns) :
        \A i, j \in 1..Len(l) : l[i] = l[j] => i = j }

\* texts of 5 and 10 words with up to 3 matches
PipelineTexts ==
    [word_count : {5, 10}, matches : {0, 1, 3}, terms : {0}, lines : {1},
     bullet_lines : {0}, headers : {0}, chars : {1}, emojis : {0},
     paragraphs : {1}, cv : {Zero}]

InitPipeline ==
    /\ IdleWeb
    /\ \E l \in PipelineLists : patterns = RegistryInit(l)
    /\ detectors = <<>>
    /\ document \in { <<d>> : d \in PipelineTexts }
    /\ results = <<>>
    /\ score_vector = <<>>
    /\ config \in Configs
    /\ agg = <<>>
    /\ call = NoCall
    /\ IdleDb /\ IdleLoader /\ IdleBatch /\ IdleThreads

\* score_vector = analyzer.run(text, word_count)
PipelineRun ==
    /\ call = NoCall
    /\ LET out == AnalyzerRun(patterns, detectors, document[1])
       IN  /\ score_vector' = <<out.score_vector>>
           /\ results' = out.score_vector.pattern_results
           /\ detectors' = out.detectors
    /\ call' = [op |-> "run", exc |-> ""]
    /\ UNCHANGED <<scan_status, scan_last_completed,
                   background_tasks, now, patterns, config, agg, scans, pattern_scores, document,
                   files, tasks, semaphore, batch, threads>>

\* result = compute_aggregate(score_vector, config, url=url,
\*                            file_path=file_path, word_count=word_count)
PipelineScore(ident) ==
    /\ call.op = "run"
    /\ ComputeAggregateCall(ident, document[1].word_count, None, None)

NextPipeline ==
    \/ PipelineRun
    \/ \E ident \in Identities : PipelineScore(ident)

SpecPipeline == InitPipeline /\ [][NextPipeline]_vars

\* the catalog holds the phrase pattern alone, the text has 10 words and 3
\* matches, all category weight is on phrases, and the pipeline has run
ExampleScored ==
    /\ call.op = "compute_aggregate"
    /\ patterns = RegistryInit(<<PhrasePattern>>)
    /\ document[1].word_count = 10
    /\ document[1].matches = 3
    /\ config = DefaultConfig(WeightConfig(Zero, One, Zero, Zero, Zero))

\* the detector and analyzer half of the example
ExampleVector ==
    /\ Len(results) = 1
    /\ results[1].raw_value = Rat(3, 1)
    /\ results[1].normalized_score = One
    /\ score_vector[1].phrases = One
    /\ \A c \in Categories \ {"phrases"} : score_vector[1][c] = Zero

\* C24: a catalog with the single Regex pattern (weight 1.0, phrases,
\* thresholds [0,1], per 10 words) matching 3 times in a 10-word text yields
\* raw 3.0, normalized 1.0, phrases mean 1.0 and every other mean 0.0, and with
\* all weight on phrases an AggregateResult of score 100 labelled LIKELY AI;
\* in general every regex result's raw value is matches / word_count *
\* per_n_words and the result returned carries the scaled weighted sum.
C24_EndToEnd ==
    /\ ExampleScored =>
         /\ ExampleVector
         /\ call.exc = ""
         /\ Len(agg[1].value) = 1
         /\ agg[1].value[1].aggregate_score = 100
         /\ agg[1].value[1].label = "LIKELY AI"
    /\ call.op = "compute_aggregate" =>
         /\ \A i \in 1..Len(results) :
              PatternOf(results[i]).detection_type = "regex" =>
                 results[i].raw_value
                    = RMul(Rat(document[1].matches, document[1].word_count),
                           Rat(PatternOf(results[i]).params.per_n_words, 1))
         /\ call.exc = ""
         /\ Len(agg[1].value) = 1
         /\ ScaledRoundedClamped(agg[1].value[1].aggregate_score,
                                 Scaled(score_vector[1], config.weights))

\* what the pipeline has computed when the constructor call of
\* compute_aggregate raises: the vector of the example and 100, LIKELY AI
PipelineLocals ==
    ExampleScored =>
        /\ ExampleVector
        /\ agg[1].aggregate = 100
        /\ agg[1].label = "LIKELY AI"

PipelineLocalsSeen ==
    /\ ExampleScored
    /\ agg[1].aggregate = 100

----------------------------------------------------------------------------
(* Definitions with the same id: load order and PatternRegistry.__init__    *)

\* the program has started on a directory of valid pattern documents, two of
\* them with the same id
DuplicateIdsLoaded ==
    /\ call.op = "aidar"
    /\ Len(PatternFiles) = 2
    /\ \A i \in 1..2 : ~Defective(PatternFiles[i].content)
    /\ PatternFiles[1].content.data.id = PatternFiles[2].content.data.id
    /\ PatternFiles[1].content # PatternFiles[2].content

\* C25: when the loaded documents contain two definitions with the same id,
\* the registry holds exactly one definition for that id, the one loaded last
\* in sorted path order.
C25_LastLoadedWins ==
    DuplicateIdsLoaded =>
        /\ call.exc = ""
        /\ Len(patterns) = 1
        /\ patterns[1].id = PatternFiles[2].content.data.id
        /\ patterns[1].weight = PatternFiles[2].content.data.weight

\* the registry's half: built from any list of definitions it holds one
\* definition per id, the last of the list with that id
RegistryKeepsLast ==
    \A l \in PatternLists :
        LET r == RegistryInit(l)
        IN  /\ \A i, j \in 1..Len(r) : r[i].id = r[j].id => i = j
            /\ \A i \in 1..Len(l) :
                 (\A j \in (i + 1)..Len(l) : l[j].id # l[i].id)
                    => r[IndexOfId(r, l[i].id, 1)] = l[i]

\* the analyzer's half: a run gives at most one result per pattern id
OneResultPerId ==
    call.op = "run" =>
        \A i, j \in 1..Len(results) :
            results[i].pattern_id = results[j].pattern_id => i = j

\* a registry built from two definitions of one id has analysed a document
OneResultPerIdSeen ==
    /\ call.op = "run"
    /\ Len(patterns) = 1
    /\ patterns[1].id = "em_dash"
    /\ patterns[1].weight = Half
    /\ Len(results) = 1

----------------------------------------------------------------------------
(* cli/track.py: the track command, and SpecTrack                           *)

\* url_already_scanned(conn, url)
UrlAlreadyScanned(sc, url) == \E s \in sc : s.url = url

\* list(S) of a set: its elements in an order the hash seed decides
ListsOf(S) ==
    { l \in [1..Cardinality(S) -> S] : \A i, j \in DOMAIN l : l[i] = l[j] => i = j }

\* urls[:limit]
Take(list, limit) == SubSeq(list, 1, IMin(limit, Len(list)))

\* lines 119-136: the lists the urls to scan can be, given the stale urls found
\* with --rescan-stale
TrackUrls(sc, urls, rescan_stale, stale, skip_existing) ==
    LET unscanned == SelectSeq(urls, LAMBDA u : ~UrlAlreadyScanned(sc, u))
    IN  IF rescan_stale /\ stale # {}
        THEN ListsOf(stale \cup { unscanned[i] : i \in 1..Len(unscanned) })
        ELSE IF skip_existing THEN {unscanned} ELSE {urls}

\* line 122: {p.id: p.version for p in registry.all_patterns()}; a definition
\* without the attribute makes the comprehension raise
CurrentVersions(pats) ==
    IF \E i \in 1..Len(pats) : "version" \notin DOMAIN pats[i]
    THEN Raised("AttributeError")
    ELSE Returned([id \in { pats[i].id : i \in 1..Len(pats) } |->
                      (CHOOSE p \in { pats[i] : i \in 1..Len(pats) } : p.id = id).version])

\* lines 164-168: the coroutines of the urls, gathered in order; the detector
\* cache each of them leaves is the one the next finds
RECURSIVE ScanAll(_, _, _, _, _, _)
ScanAll(urls, i, fetch, pats, dets, cfg) ==
    IF i > Len(urls) THEN <<>>
    ELSE LET one == ScanOneBody(urls[i], FetchUrlAsync(fetch), pats, dets, cfg)
         IN  <<one.value>> \o ScanAll(urls, i + 1, fetch, pats, one.detectors, cfg)

\* lines 174-175: store_result for each result, up to the first that raises
RECURSIVE StoreAll(_, _, _, _)
StoreAll(sc, ps, rs, i) ==
    IF i > Len(rs) THEN [exc |-> "", scans |-> sc, pattern_scores |-> ps]
    ELSE LET out == StoreResult(sc, ps, rs[i])
         IN  IF out.exc # ""
             THEN [exc |-> out.exc, scans |-> out.scans,
                   pattern_scores |-> out.pattern_scores]
             ELSE StoreAll(out.scans, out.pattern_scores, rs, i + 1)

\* the registries a run of track is handed
TrackRegistries ==
    { <<>>,
      <<PatternDef("em_dash", "punctuation", One, "regex",
                   [threshold_low |-> Zero, threshold_high |-> Two])>>,
      <<PatternDef("em_dash", "punctuation", One, "regex",
                   [threshold_low |-> Zero, threshold_high |-> Two]),
        PatternDef("delve", "vocabulary", One, "frequency",
                   [threshold_low |-> Zero, threshold_high |-> One])>> }

\* what discovery finds for a.com
Discovered ==
    { <<>>, <<"http://a.com/1">>, <<"http://a.com/2">>,
      <<"http://a.com/1", "http://a.com/2">> }

TrackLimits == {1, 2}

InitTrack ==
    /\ IdleWeb
    /\ \E content \in [UrlSet -> StoredOptions] :
         /\ content["http://b.org/1"].present
              => content["http://b.org/1"].versions = [id \in StoredPatternIds |-> 1]
         /\ scans = StoredScans(content, FALSE)
         /\ pattern_scores = StoredPatternScores(content, FALSE)
    /\ \E l \in TrackRegistries : patterns = RegistryInit(l)
    /\ detectors = <<>>
    /\ config = NoConfig
    /\ agg = <<>>
    /\ call = NoCall
    /\ IdleAnalysis /\ IdleDoc /\ IdleLoader /\ IdleBatch /\ IdleThreads

\* aidar track <domain> --limit --skip-existing --rescan-stale up to line 143:
\* discovery, the stale urls and the urls to scan; the command ends here when
\* nothing was discovered, when line 122 raises and when no url is left
TrackSelect(domain, discovered, limit, skip_existing, rescan_stale) ==
    /\ call.op \notin {"track_select", "track_scan"}
    /\ LET cv == IF rescan_stale THEN CurrentVersions(patterns) ELSE Returned(<<>>)
       IN  IF discovered = <<>>
           THEN call' = [op |-> "track", exc |-> "SystemExit", domain |-> domain,
                         rescan_stale |-> rescan_stale, urls |-> <<>>, fetch |-> "ok"]
           ELSE IF cv.exc # ""
           THEN call' = [op |-> "track", exc |-> cv.exc, domain |-> domain,
                         rescan_stale |-> rescan_stale, urls |-> <<>>, fetch |-> "ok"]
           ELSE \E chosen \in
                    TrackUrls(scans, discovered, rescan_stale,
                              IF rescan_stale
                              THEN Returned_Urls(GetStaleUrls(scans, pattern_scores,
                                                              cv.value[1], domain))
                              ELSE {},
                              skip_existing) :
                  call' = [op |-> IF chosen = <<>> THEN "track" ELSE "track_select",
                           exc |-> "", domain |-> domain,
                           rescan_stale |-> rescan_stale,
                           urls |-> Take(chosen, limit), fetch |-> "ok"]
    /\ batch' = <<>>
    /\ UNCHANGED <<scan_status, scan_last_completed,
                   background_tasks, now, patterns, detectors, results, score_vector, config, agg,
                   scans, pattern_scores, document, files, tasks, semaphore,
                   threads>>

\* lines 152-171: results = asyncio.run(run()), every page fetched with the
\* same outcome
TrackScan(fetch) ==
    /\ call.op = "track_select"
    /\ batch' = KeepResults(ScanAll(call.urls, 1, fetch, patterns, detectors, config),
                            1, <<>>)
    /\ call' = [call EXCEPT !.op = "track_scan", !.fetch = fetch]
    /\ UNCHANGED <<scan_status, scan_last_completed,
                   background_tasks, now, patterns, detectors, results, score_vector, config, agg,
                   scans, pattern_scores, document, files, tasks, semaphore,
                   threads>>

\* lines 174-178: the results are stored and the command ends
TrackStore ==
    /\ call.op = "track_scan"
    /\ LET out == StoreAll(scans, pattern_scores, batch, 1)
       IN  /\ scans' = out.scans
           /\ pattern_scores' = out.pattern_scores
           /\ call' = [call EXCEPT !.op = "track", !.exc = out.exc]
    /\ UNCHANGED <<scan_status, scan_last_completed,
                   background_tasks, now, patterns, detectors, results, score_vector, config, agg,
                   document, files, tasks, semaphore, batch, threads>>

NextTrack ==
    \/ \E discovered \in Discovered, limit \in TrackLimits,
          skip_existing \in BOOLEAN, rescan_stale \in BOOLEAN :
           TrackSelect("a.com", discovered, limit, skip_existing, rescan_stale)
    \/ \E fetch \in {"ok", "http_error"} : TrackScan(fetch)
    \/ TrackStore

SpecTrack == InitTrack /\ [][NextTrack]_vars

\* the versions the loaded definitions were bumped to
LoadedRegistryVersions ==
    [id \in { patterns[i].id : i \in 1..Len(patterns) } |-> MaxVersion]

\* C26: a run of track with --rescan-stale that discovered urls and in which
\* no fetch failed leaves no url of the tracked domain stale for the loaded
\* versions, whatever --skip-existing is and however many urls were discovered.
C26_RescanClearsStale ==
    (call.op = "track" /\ call.rescan_stale /\ call.fetch = "ok"
        /\ call.exc # "SystemExit") =>
        \A url \in UrlSet : ~IsStale(url, LoadedRegistryVersions, call.domain)

\* without a loaded pattern nothing is stale and the run completes
TrackWithoutPatterns ==
    (call.op = "track" /\ call.rescan_stale /\ patterns = <<>>) =>
        call.exc \in {"", "SystemExit"}

TrackWithoutPatternsSeen ==
    /\ call.op = "track"
    /\ call.rescan_stale
    /\ patterns = <<>>
    /\ call.exc = ""
    /\ Len(call.urls) = 2

----------------------------------------------------------------------------
(* store_result: the id returned                                            *)

\* the pattern score rows attached to a scan id, without the row ids
AttachedTo(scan_id) ==
    { [pattern_id |-> r.pattern_id, category |-> r.category,
       raw_value |-> r.raw_value, norm_score |-> r.norm_score]
      : r \in { r \in pattern_scores : r.scan_id = scan_id } }

\* C27: store_result returns the id of the scans row that holds the result
\* just stored (its url, file path, score, label and word count), and the
\* pattern score rows attached to that id are exactly the result's pattern
\* results; for results with a url and for file results without one, the
\* same file path stored more than once included.
C27_ReturnsStoredId ==
    call.op = "store_result" =>
        /\ call.exc = ""
        /\ \E s \in scans : /\ s.id = call.scan_id
                            /\ s.url = call.url
                            /\ s.file_path = call.file_path
                            /\ s.score = 80 /\ s.label = "LIKELY AI"
        /\ AttachedTo(call.scan_id)
             = { [pattern_id |-> call.pattern_results[i].pattern_id,
                  category |-> call.pattern_results[i].category,
                  raw_value |-> call.pattern_results[i].raw_value,
                  norm_score |-> call.pattern_results[i].normalized_score]
                 : i \in 1..Len(call.pattern_results) }

\* a store that raises returns no id and leaves both tables as they were
StoreRaisesUnchanged ==
    [][(call'.op = "store_result" /\ call'.exc = "AttributeError") =>
          /\ call'.scan_id = 0
          /\ scans' = scans
          /\ pattern_scores' = pattern_scores]_vars

\* a store of a file result over a database that holds the file already
StoreRaisesUnchangedSeen ==
    /\ call.op = "store_result"
    /\ call.exc = "AttributeError"
    /\ call.url = None
    /\ \E s \in scans : s.url = None /\ s.file_path = call.file_path

----------------------------------------------------------------------------
(* web/main.py: submit_site and the _run_domain_scan background task        *)
(* The handlers run on one event loop: submit_site has no await between its *)
(* tests and its assignments, and _run_domain_scan awaits only the gather   *)
(* of its _scan_one coroutines.  The task is modelled in four steps (the    *)
(* assignment of line 95, lines 96-113, the gather, lines 134-141), which   *)
(* admits the interleavings of the event loop and more.                     *)

\* line 41: 60 * 60 * 6
RATE_LIMIT_SECONDS == 21600

\* line 66: limit: int = 200
WebLimit == 200

\* the clock advances in steps of half the rate-limit interval
TickSeconds == 10800

\* time.time() when the process starts: more than an interval after the epoch
StartTime == RATE_LIMIT_SECONDS

\* the clock stops at three intervals
MaxTime == 64800

\* the background tasks alive at once
MaxTasks == 3

WebDomains == {"a.com", "b.org"}

\* the values of the form field "domain"
Forms == {"", "  ", "a.com", "https://a.com/", "http://b.org"}

\* line 172: str(form.get("domain", "")).strip().lstrip("https://")
\* .lstrip("http://").rstrip("/"); lstrip removes leading characters of the
\* set {h, t, p, s, :, /}, which leaves the host names of the model whole
FormDomain(form) ==
    CASE form \in {"", "  "} -> ""
      [] form \in {"a.com", "https://a.com/"} -> "a.com"
      [] form = "http://b.org" -> "b.org"

\* line 182: _scan_status.get(domain) in ("queued", "running")
InFlightRunningOnly(status) == status = "running"

InFlight(status) == status \in {"queued", "running"}

\* lines 190-201: the scans of the domain hold a row younger than the
\* interval.  latest is the greatest scanned_at; a timestamp without offset
\* (what isoformat() of datetime.utcnow() writes) makes the subtraction from
\* datetime.now(timezone.utc) raise TypeError, which line 200 passes over.
DbRecent(sc, domain, t) ==
    LET rows == { r \in sc : r.domain = domain }
    IN  /\ rows # {}
        /\ LET latest == CHOOSE r \in rows :
                             \A q \in rows : q.scanned_at.time <= r.scanned_at.time
           IN  /\ latest.scanned_at.tzinfo # None
               /\ t - latest.scanned_at.time < RATE_LIMIT_SECONDS

\* a task of background_tasks
Task(domain, pc, urls, gathered) ==
    [domain |-> domain, pc |-> pc, urls |-> urls, results |-> gathered]

\* POST /submit
SubmitSite(form) ==
    LET domain == FormDomain(form)
        refused == [op |-> "submit", domain |-> domain, enqueued |-> FALSE,
                    stored |-> 0]
    IN  /\ IF domain = ""
              \/ InFlight(scan_status[domain])
              \/ now - scan_last_completed[domain] < RATE_LIMIT_SECONDS
              \/ DbRecent(scans, domain, now)
           THEN /\ call' = refused
                /\ UNCHANGED <<scan_status, background_tasks>>
           ELSE /\ Len(background_tasks) < MaxTasks
                /\ scan_status' = [scan_status EXCEPT ![domain] = "queued"]
                /\ background_tasks' =
                       Append(background_tasks, Task(domain, "queued", <<>>, <<>>))
                /\ call' = [refused EXCEPT !.enqueued = TRUE]
        /\ UNCHANGED <<patterns, detectors, results, score_vector, config, agg,
                       scans, pattern_scores, document, files, tasks, semaphore,
                       batch, threads, scan_last_completed, now>>

\* background_tasks without its i-th task
RemoveTask(i) ==
    SubSeq(background_tasks, 1, i - 1)
        \o SubSeq(background_tasks, i + 1, Len(background_tasks))

\* the call record of a step of _run_domain_scan
ScanStep(domain, stored) ==
    [op |-> "_run_domain_scan", domain |-> domain, enqueued |-> FALSE,
     stored |-> stored]

\* line 95: _scan_status[domain] = "running"
RunBegin(i) ==
    /\ background_tasks[i].pc = "queued"
    /\ scan_status' = [scan_status EXCEPT ![background_tasks[i].domain] = "running"]
    /\ background_tasks' = [background_tasks EXCEPT ![i].pc = "running"]
    /\ call' = ScanStep(background_tasks[i].domain, 0)
    /\ UNCHANGED <<patterns, detectors, results, score_vector, config, agg,
                   scans, pattern_scores, document, files, tasks, semaphore,
                   batch, threads, scan_last_completed, now>>

\* what _discover can answer for a domain
WebDiscovered(domain) ==
    IF domain = "a.com"
    THEN { <<>>, <<"http://a.com/tag/x">>, <<"http://a.com/1">>,
           <<"http://a.com/1", "http://a.com/2">> }
    ELSE { <<>>, <<"http://b.org/1">> }

\* lines 104-105: any(p in u for p in skip)
SkipUrl(u) == u = "http://a.com/tag/x"

\* _get_analyzer: the singleton, loaded at the first call; cfg is <<>> while
\* _analyzer is None and the one-element tuple of the AppConfig afterwards
GetAnalyzer(cfg, pats, fs) ==
    IF cfg # <<>> THEN [exc |-> "", patterns |-> pats, config |-> cfg]
    ELSE LET lp == LoadPatterns(fs.listing)
             w  == LoadWeightConfig(fs.weights)
         IN  IF lp.exc # ""
             THEN [exc |-> lp.exc, patterns |-> pats, config |-> cfg]
             ELSE IF w.exc # ""
             THEN [exc |-> w.exc, patterns |-> pats, config |-> cfg]
             ELSE [exc |-> "", patterns |-> RegistryInit(lp.value),
                   config |-> <<DefaultConfig(w.value[1])>>]

\* lines 96-113: discovery, the two filters and the analyzer; the task ends
\* here when nothing was discovered, when no url is new and when
\* _get_analyzer raises
RunDiscover(i, discovered) ==
    LET domain == background_tasks[i].domain
        kept   == SelectSeq(discovered, LAMBDA u : ~SkipUrl(u))
        urls   == Take(SelectSeq(kept, LAMBDA u : ~UrlAlreadyScanned(scans, u)),
                       WebLimit)
        loaded == GetAnalyzer(config, patterns, files)
    IN  /\ background_tasks[i].pc = "running"
        /\ call' = ScanStep(domain, 0)
        /\ IF discovered = <<>>
           THEN /\ scan_status' = [scan_status EXCEPT ![domain] = "error:no_urls"]
                /\ background_tasks' = RemoveTask(i)
                /\ UNCHANGED <<patterns, config>>
           ELSE IF urls = <<>>
           THEN /\ scan_status' = [scan_status EXCEPT ![domain] = "done"]
                /\ background_tasks' = RemoveTask(i)
                /\ UNCHANGED <<patterns, config>>
           ELSE IF loaded.exc # ""
           THEN /\ scan_status' = [scan_status EXCEPT ![domain] = "error"]
                /\ background_tasks' = RemoveTask(i)
                /\ UNCHANGED <<patterns, config>>
           ELSE /\ background_tasks' =
                       [background_tasks EXCEPT ![i].pc = "gather", ![i].urls = urls]
                /\ patterns' = loaded.patterns
                /\ config' = loaded.config
                /\ UNCHANGED scan_status
        /\ UNCHANGED <<detectors, results, score_vector, agg, scans,
                       pattern_scores, document, files, tasks, semaphore, batch,
                       threads, scan_last_completed, now>>

\* lines 116-129: _scan_one; any exception answers None
WebScanOne(url, fetched, pats, dets, cfg) ==
    IF fetched.exc # "" THEN [value |-> None, detectors |-> dets]
    ELSE LET fetch == fetched.value[1]
             run == AnalyzerRun(pats, dets, fetch.text)
             res == ComputeAggregate(run.score_vector, cfg, url, None,
                                     fetch.word_count, fetch.published_date,
                                     fetch.title)
         IN  [value |-> IF res.exc # "" THEN None ELSE res.value[1],
              detectors |-> run.detectors]

\* line 132: the coroutines of the urls, gathered in order
RECURSIVE WebScanAll(_, _, _, _, _, _, _)
WebScanAll(urls, i, outcomes, pats, dets, cfg, acc) ==
    IF i > Len(urls) THEN [values |-> acc, detectors |-> dets]
    ELSE LET one == WebScanOne(urls[i], FetchUrlAsync(outcomes[i]), pats, dets, cfg)
         IN  WebScanAll(urls, i + 1, outcomes, pats, one.detectors, cfg,
                        Append(acc, one.value))

\* lines 131-132: results = await asyncio.gather(...)
RunGather(i, outcomes) ==
    /\ background_tasks[i].pc = "gather"
    /\ LET out == WebScanAll(background_tasks[i].urls, 1, outcomes, patterns,
                             detectors, config[1], <<>>)
       IN  /\ background_tasks' =
                  [background_tasks EXCEPT ![i].pc = "store", ![i].results = out.values]
           /\ detectors' = out.detectors
    /\ call' = ScanStep(background_tasks[i].domain, 0)
    /\ UNCHANGED <<patterns, results, score_vector, config, agg, scans,
                   pattern_scores, document, files, tasks, semaphore, batch,
                   threads, scan_status, scan_last_completed, now>>

\* lines 134-141: the results that are not None are stored, the status is
\* done and the time recorded; an exception of store_result gives error
RunStore(i) ==
    LET domain == background_tasks[i].domain
        kept   == KeepResults(background_tasks[i].results, 1, <<>>)
        out    == StoreAll(scans, pattern_scores, kept, 1)
    IN  /\ background_tasks[i].pc = "store"
        /\ scans' = out.scans
        /\ pattern_scores' = out.pattern_scores
        /\ background_tasks' = RemoveTask(i)
        /\ IF out.exc # ""
           THEN /\ scan_status' = [scan_status EXCEPT ![domain] = "error"]
                /\ call' = ScanStep(domain, 0)
                /\ UNCHANGED scan_last_completed
           ELSE /\ scan_status' = [scan_status EXCEPT ![domain] = "done"]
                /\ scan_last_completed' =
                       [scan_last_completed EXCEPT ![domain] = now]
                /\ call' = ScanStep(domain, Len(kept))
        /\ UNCHANGED <<patterns, detectors, results, score_vector, config, agg,
                       document, files, tasks, semaphore, batch, threads, now>>

\* the steps of the task of a domain
RunDomainScan(domain) ==
    \E i \in DOMAIN background_tasks :
        /\ background_tasks[i].domain = domain
        /\ \/ RunBegin(i)
           \/ \E discovered \in WebDiscovered(domain) : RunDiscover(i, discovered)
           \/ \E outcomes \in [1..Len(background_tasks[i].urls) -> {"ok", "http_error"}] :
                  RunGather(i, outcomes)
           \/ RunStore(i)

\* time passes
Tick ==
    /\ now + TickSeconds <= MaxTime
    /\ now' = now + TickSeconds
    /\ UNCHANGED <<patterns, detectors, results, score_vector, config, agg,
                   scans, pattern_scores, document, call, files, tasks,
                   semaphore, batch, threads, scan_status, scan_last_completed,
                   background_tasks>>

\* a scans row with the scanned_at column
WithScannedAt(row, time, tzinfo) ==
    DictSet(row, "scanned_at", [time |-> time, tzinfo |-> tzinfo])

\* what the database holds when the process starts: nothing, or a scan of
\* the first url written at StartTime or long before, with or without offset
WebStoredScans ==
    {{}} \cup
    { { WithScannedAt(row, time, tzinfo)
        : row \in StoredScans([u \in UrlSet |->
                     [present |-> u = "http://a.com/1",
                      versions |-> [id \in StoredPatternIds |-> 0]]], FALSE) }
      : time \in {0, StartTime}, tzinfo \in {None, "UTC"} }

\* the patterns directories: empty, and one valid pattern document
WebPatternDirs ==
    { [listing |-> Listing([exists |-> FALSE, content |-> Mapping(<<>>)], FALSE,
                           contents),
       weights |-> [exists |-> FALSE, content |-> Mapping(<<>>)]]
      : contents \in {<<>>, <<Mapping(ValidData)>>} }

InitWeb ==
    /\ scan_status = [d \in WebDomains |-> None]
    /\ scan_last_completed = [d \in WebDomains |-> 0]
    /\ background_tasks = <<>>
    /\ now = StartTime
    /\ scans \in WebStoredScans
    /\ pattern_scores = {}
    /\ files \in WebPatternDirs
    /\ patterns = <<>> /\ detectors = <<>>
    /\ config = <<>> /\ agg = <<>>
    /\ call = NoCall
    /\ IdleAnalysis /\ IdleDoc /\ IdleBatch /\ IdleThreads

NextWeb ==
    \/ \E form \in Forms : SubmitSite(form)
    \/ \E i \in DOMAIN background_tasks : RunBegin(i)
    \/ \E i \in DOMAIN background_tasks :
           \E discovered \in WebDiscovered(background_tasks[i].domain) :
               RunDiscover(i, discovered)
    \/ \E i \in DOMAIN background_tasks :
           \E outcomes \in [1..Len(background_tasks[i].urls) -> {"ok", "http_error"}] :
               RunGather(i, outcomes)
    \/ \E i \in DOMAIN background_tasks : RunStore(i)
    \/ Tick

SpecWeb == InitWeb /\ [][NextWeb]_vars

\* the event loop runs every task that is ready: a task that can take a step
\* takes it
SpecWebFair ==
    SpecWeb /\ \A domain \in WebDomains : WF_vars(RunDomainScan(domain))

\* the tasks of a domain that have been added and have not ended
TasksOf(domain) ==
    { i \in DOMAIN background_tasks : background_tasks[i].domain = domain }

\* C28: at any time a domain has at most one scan queued or running, and a
\* submit for a domain whose status is queued or running, or whose last scan
\* completed less than RATE_LIMIT_SECONDS ago, adds no background task and
\* leaves every scan status as it was.
C28_OneScanPerDomain ==
    /\ [](\A domain \in WebDomains : Cardinality(TasksOf(domain)) <= 1)
    /\ [][(/\ call'.op = "submit"
           /\ call'.domain # ""
           /\ \/ scan_status[call'.domain] \in {"queued", "running"}
              \/ now - scan_last_completed[call'.domain] < RATE_LIMIT_SECONDS)
          => /\ background_tasks' = background_tasks
             /\ scan_status' = scan_status]_vars

\* a submit for a.com refused while its scan is running, b.org having been
\* scanned within the interval
C28_Witness ==
    /\ call.op = "submit"
    /\ call.domain = "a.com"
    /\ ~call.enqueued
    /\ scan_status["a.com"] = "running"
    /\ Cardinality(TasksOf("a.com")) = 1
    /\ scan_status["b.org"] = "done"
    /\ now - scan_last_completed["b.org"] < RATE_LIMIT_SECONDS

\* the statuses a scan ends in
Terminal == {"done", "error", "error:no_urls"}

\* a queued scan ends; the status of a domain changes only from not in
\* flight to queued, from queued to running and from running to a terminal
\* status; a status in flight has its task
ScanTerminates ==
    /\ \A domain \in WebDomains :
         (scan_status[domain] = "queued") ~> (scan_status[domain] \in Terminal)
    /\ \A domain \in WebDomains :
         (scan_status[domain] = "running") ~> (scan_status[domain] \in Terminal)
    /\ [][\A domain \in WebDomains :
            scan_status'[domain] # scan_status[domain] =>
                \/ scan_status[domain] \notin {"queued", "running"}
                     /\ scan_status'[domain] = "queued"
                \/ scan_status[domain] = "queued"
                     /\ scan_status'[domain] = "running"
                \/ scan_status[domain] = "running"
                     /\ scan_status'[domain] \in Terminal]_vars
    /\ [](\A domain \in WebDomains :
            scan_status[domain] \in {"queued", "running"} => TasksOf(domain) # {})

\* a scan that found no url, one that found no new url and one whose
\* analyzer failed to load have all ended
ScanTerminatesSeen ==
    /\ scan_status["a.com"] = "error"
    /\ scan_status["b.org"] = "error:no_urls"
    /\ background_tasks = <<>>

\* C29: every queued scan leaves the in-flight statuses, by queued, running
\* and then done, error or error:no_urls, none stays at running, and a
\* last-completed time is recorded only by a scan that stored results.
C29_ScanLeavesInFlight ==
    /\ ScanTerminates
    /\ [][scan_last_completed' # scan_last_completed => call'.stored > 0]_vars

\* a scan whose page was fetched ended in done with the time recorded and
\* nothing stored
RecordedWithoutStoring ==
    /\ call.op = "_run_domain_scan"
    /\ call.domain = "a.com"
    /\ call.stored = 0
    /\ scan_status["a.com"] = "done"
    /\ scan_last_completed["a.com"] = now
    /\ scans = {}

----------------------------------------------------------------------------
(* get_stale_urls: what makes a document stale                              *)

\* the stored score rows of the scans of a url
RowsOf(url) ==
    { r \in pattern_scores : \E s \in scans : s.url = url /\ s.id = r.scan_id }

\* C30: get_stale_urls returns a url only when the document has a stored
\* score row of a pattern of the current map at a version below the map's:
\* a pattern of the map without a stored row for the document does not make
\* it stale, a stored row of a pattern that is not in the map does not
\* either, and a document stored without url is never returned.
C30_OnlyStoredRows ==
    call.op = "get_stale_urls" =>
        /\ \A url \in Returned_Urls(call.value) :
             /\ url # None
             /\ \E r \in RowsOf(url) :
                  /\ r.pattern_id \in DOMAIN call.current_versions
                  /\ r.pattern_version < call.current_versions[r.pattern_id]
        /\ \A url \in UrlSet :
             (\A r \in RowsOf(url) :
                 r.pattern_id \in DOMAIN call.current_versions
                    => r.pattern_version >= call.current_versions[r.pattern_id])
             => url \notin Returned_Urls(call.value)

\* both patterns current at version 2: the first url, stored with em_dash at
\* 2 and no row for delve, and the file, stored with em_dash at 1 and no url,
\* are not returned; the second url, stored with delve at 1, is
C30_Witness ==
    /\ call.op = "get_stale_urls"
    /\ call.domain = None
    /\ call.current_versions = [id \in StoredPatternIds |-> 2]
    /\ call.value = <<"http://a.com/2">>
    /\ { r.pattern_id : r \in RowsOf("http://a.com/1") } = {"em_dash"}
    /\ \E r \in RowsOf("http://a.com/2") :
         r.pattern_id = "delve" /\ r.pattern_version = 1
    /\ \E s \in scans : /\ s.url = None
                        /\ \E r \in pattern_scores :
                             /\ r.scan_id = s.id
                             /\ r.pattern_id = "em_dash"
                             /\ r.pattern_version = 1

====
